---------------------------- MODULE Spec2Model ----------------------------
(***************************************************************************)
(* A model of the columnar store of mod-mmap: the column builder and its   *)
(* file writer (columnar/column.rs), the column reader over the mapped     *)
(* file, the table loader (columnar/table.rs) and the schema               *)
(* (columnar/schema.rs).                                                   *)
(*                                                                         *)
(* Conventions.  A byte is a number in 0..255 and a buffer or a file is a  *)
(* sequence of bytes, addressed from 0 as in the code (byte p of a file f  *)
(* is f[p+1]).  An Option is a sequence: None is <<>>, Some(x) is <<x>>.   *)
(* Numbers the model builds stay below 2^24; a u64 read back from a file   *)
(* whose value is 2^24 or more is represented by Huge.                     *)
(***************************************************************************)
EXTENDS Integers, Sequences, FiniteSets, TLC

VARIABLES
    builder,    \* the ColumnBuilder: field, data, null_bitmap, offsets, row_count
    hist,       \* the rows appended with success, in order (what the caller appended)
    failed,     \* whether an append has returned an error so far
    last,       \* the last call made, its argument and what it returned
    phase,      \* "building", "written", "opened", "panicked"
    file,       \* the bytes of the column file on disk
    column,     \* the result of Column::open on that file
    dir,        \* a table directory: what lies on disk for the table
    table,      \* the result of Table::open on that directory
    fieldlist,  \* the argument handed to Schema::new
    schema,     \* the Schema it returned
    calls,      \* per thread, the evaluate or execute call it is running
    index,      \* the Index: its data multimap
    indexed,    \* the column handed to the last Index::build that returned
    TOTAL_MAPPED_MEMORY,  \* the process-wide counter of bytes mapped
    ACTIVE_MAPPINGS,      \* the process-wide counter of mappings
    views,      \* the live views (Mmap, MmapMut): each an id and its MmapRaw
    mapcalls,   \* per thread, the map/map_mut/map_anon call or drop it is running
    syscalls,   \* the number of mmap calls issued so far
    space,      \* the process's address space: the pages mapped and what backs them
    tbuilder    \* the TableBuilder: schema and one ColumnBuilder per field

\* the state of the query engine and the index
qvars == <<calls, index, indexed>>
\* the state of the mapping facade
mvars == <<TOTAL_MAPPED_MEMORY, ACTIVE_MAPPINGS, views, mapcalls, syscalls, space>>
\* the state of the table builder
tvars == <<tbuilder>>

vars == <<builder, hist, failed, last, phase, file, column, dir, table, fieldlist, schema,
          qvars, mvars, tvars>>

-----------------------------------------------------------------------------
(* Bounds of the model *)

\* rows appended to one builder under Spec
MaxRows == 3
\* rows appended to one builder under SpecDeep (past the first bitmap byte)
DeepRows == 9
\* rows of a column file in a table directory
MaxTableRows == 1
\* the largest row_count in the header of a file handed to Column::open
OpenRows == 1
\* fields handed to Schema::new
MaxFields == 3
\* rows of a table a query runs on, or a predicate is evaluated on
MaxQueryRows == 3
\* rows of the table two threads query at once
ConcRows == 2
\* rows of the table whose columns are indexed
MaxIndexRows == 2
\* builds of one Index
MaxBuilds == 2
\* calls (mappings and drops) the threads make in all
MaxMapCalls == 4
\* pages of the address space the kernel places mappings in
AddrPages == 3
\* bits of the machine word (usize) of the alignment utilities
WordBits == 7
\* add_row calls made on one TableBuilder
MaxAddRows == 2

-----------------------------------------------------------------------------
(* Options, bytes and integers *)

None == <<>>
Some(x) == <<x>>

\* the outcome of a read outside the mapped pages (the process faults)
Fault == <<"fault", "fault">>

\* std::mem::size_of::<ColumnHeader>() for the #[repr(C)] layout
HeaderSize == 112

\* the page size of the mapping; a file is mapped in whole pages
PageSize == 4096

\* stands for every u64 value of 2^24 or more
Huge == 256 * 256 * 256

Pow2(n) == IF n = 0 THEN 1 ELSE IF n = 1 THEN 2 ELSE IF n = 2 THEN 4
           ELSE IF n = 3 THEN 8 ELSE IF n = 4 THEN 16 ELSE IF n = 5 THEN 32
           ELSE IF n = 6 THEN 64 ELSE 128

\* byte & (1 << bit) != 0
BitIsSet(byte, bit) == (byte \div Pow2(bit)) % 2 = 1

\* byte | (1 << bit)
BitOr(byte, bit) == IF BitIsSet(byte, bit) THEN byte ELSE byte + Pow2(bit)

\* v.to_le_bytes() of an integer of n bytes, for 0 <= v < 2^24
to_le_bytes(v, n) ==
    [i \in 1..n |-> IF i = 1 THEN v % 256
                    ELSE IF i = 2 THEN (v \div 256) % 256
                    ELSE IF i = 3 THEN (v \div 65536) % 256
                    ELSE 0]

\* the little-endian value of a sequence of bytes (Huge from 2^24 on)
from_le_bytes(bs) ==
    IF \E i \in 1..Len(bs) : i > 3 /\ bs[i] /= 0 THEN Huge
    ELSE (IF Len(bs) >= 1 THEN bs[1] ELSE 0)
         + (IF Len(bs) >= 2 THEN 256 * bs[2] ELSE 0)
         + (IF Len(bs) >= 3 THEN 65536 * bs[3] ELSE 0)

Zeros(n) == [i \in 1..n |-> 0]

RECURSIVE Flatten(_)
Flatten(ss) == IF ss = <<>> THEN <<>> ELSE Head(ss) \o Flatten(Tail(ss))

-----------------------------------------------------------------------------
(* DataType and Field (columnar/schema.rs) *)

DT(kind) == [kind |-> kind, size |-> 0]
FixedBinary(size) == [kind |-> "FixedBinary", size |-> size]

\* DataType::size: the width of a fixed type, None for a variable one
DataType_size(dt) ==
    CASE dt.kind \in {"Boolean", "Int8", "UInt8"} -> Some(1)
      [] dt.kind \in {"Int16", "UInt16"} -> Some(2)
      [] dt.kind \in {"Int32", "UInt32", "Float32", "Date"} -> Some(4)
      [] dt.kind \in {"Int64", "UInt64", "Float64", "Timestamp"} -> Some(8)
      [] dt.kind \in {"String", "Binary"} -> None
      [] dt.kind = "FixedBinary" -> Some(dt.size)
      [] dt.kind = "Decimal" -> Some(16)

is_variable_length(dt) == dt.kind \in {"String", "Binary"}

Field_new(name, dt, nullable) == [name |-> name, data_type |-> dt, nullable |-> nullable]

-----------------------------------------------------------------------------
(* ColumnHeader (columnar/column.rs) *)

\* ColumnHeader::data_type_to_u32
data_type_to_u32(dt) ==
    CASE dt.kind = "Boolean" -> 1
      [] dt.kind = "Int8" -> 2
      [] dt.kind = "UInt8" -> 3
      [] dt.kind = "Int16" -> 4
      [] dt.kind = "UInt16" -> 5
      [] dt.kind = "Int32" -> 6
      [] dt.kind = "UInt32" -> 7
      [] dt.kind = "Int64" -> 8
      [] dt.kind = "UInt64" -> 9
      [] dt.kind = "Float32" -> 10
      [] dt.kind = "Float64" -> 11
      [] dt.kind = "String" -> 12
      [] dt.kind = "Binary" -> 13
      [] dt.kind = "Date" -> 14
      [] dt.kind = "Timestamp" -> 15
      [] dt.kind = "FixedBinary" -> 16 + 256 * dt.size
      [] dt.kind = "Decimal" -> 17

\* ColumnHeader::u32_to_data_type; None stands for the panic of the last arm
u32_to_data_type(value) ==
    LET low == value % 256 IN
    CASE low = 1 -> Some(DT("Boolean"))
      [] low = 2 -> Some(DT("Int8"))
      [] low = 3 -> Some(DT("UInt8"))
      [] low = 4 -> Some(DT("Int16"))
      [] low = 5 -> Some(DT("UInt16"))
      [] low = 6 -> Some(DT("Int32"))
      [] low = 7 -> Some(DT("UInt32"))
      [] low = 8 -> Some(DT("Int64"))
      [] low = 9 -> Some(DT("UInt64"))
      [] low = 10 -> Some(DT("Float32"))
      [] low = 11 -> Some(DT("Float64"))
      [] low = 12 -> Some(DT("String"))
      [] low = 13 -> Some(DT("Binary"))
      [] low = 14 -> Some(DT("Date"))
      [] low = 15 -> Some(DT("Timestamp"))
      [] low = 16 -> Some(FixedBinary(value \div 256))
      [] low = 17 -> Some([kind |-> "Decimal", size |-> 0])
      [] OTHER -> None

\* b"ULTRACOL"
Magic == <<85, 76, 84, 82, 65, 67, 79, 76>>

\* ColumnHeader::new: the sizes and offsets are filled in by the writer
ColumnHeader_new(row_count, dt, nullable, compression) ==
    [magic |-> Magic, version |-> 1, row_count |-> row_count,
     data_type |-> data_type_to_u32(dt),
     nullable |-> IF nullable THEN 1 ELSE 0,
     compression |-> compression,
     data_offset |-> 0, data_size |-> 0,
     null_bitmap_offset |-> 0, null_bitmap_size |-> 0,
     offsets_offset |-> 0, offsets_size |-> 0]

\* the 112 bytes of a #[repr(C)] ColumnHeader on a little-endian host; the
\* padding after version, nullable and compression is written as zero
header_bytes(h) ==
    h.magic                                    \* 0..8
    \o to_le_bytes(h.version, 4) \o Zeros(4)   \* 8..12, padding to 16
    \o to_le_bytes(h.row_count, 8)             \* 16..24
    \o to_le_bytes(h.data_type, 4)             \* 24..28
    \o <<h.nullable>> \o Zeros(3)              \* 28, padding to 32
    \o to_le_bytes(h.compression, 4) \o Zeros(4) \* 32..36, padding to 40
    \o to_le_bytes(h.data_offset, 8)           \* 40..48
    \o to_le_bytes(h.data_size, 8)             \* 48..56
    \o to_le_bytes(h.null_bitmap_offset, 8)    \* 56..64
    \o to_le_bytes(h.null_bitmap_size, 8)      \* 64..72
    \o to_le_bytes(h.offsets_offset, 8)        \* 72..80
    \o to_le_bytes(h.offsets_size, 8)          \* 80..88
    \o Zeros(24)                               \* reserved, 88..112

-----------------------------------------------------------------------------
(* ColumnBuilder (columnar/column.rs).  Every append is a function from the *)
(* builder to the builder it leaves and the result it returns: "ok",        *)
(* "invalid_argument", or "panic" (an index out of bounds).                 *)

ColumnBuilder_new(field, compression) ==
    [field |-> field, data |-> <<>>, null_bitmap |-> <<>>, offsets |-> <<>>,
     row_count |-> 0, compression |-> compression]

Ok(b) == [b |-> b, res |-> "ok"]
InvalidArgument(b) == [b |-> b, res |-> "invalid_argument"]
Panic(b) == [b |-> b, res |-> "panic"]

\* the last offset pushed, 0 when there is none
current_offset(b) ==
    IF b.offsets = <<>> THEN 0 ELSE b.offsets[Len(b.offsets)]

\* append_null without its `self.row_count += 1`
append_null_uncounted(b) ==
    IF ~b.field.nullable THEN InvalidArgument(b)
    ELSE Ok([b EXCEPT !.null_bitmap =
                          IF (b.row_count \div 8) >= Len(@) THEN Append(@, 0) ELSE @,
                      !.data = IF DataType_size(b.field.data_type) /= None
                               THEN @ \o Zeros(DataType_size(b.field.data_type)[1])
                               ELSE @])

append_null(b) ==
    IF ~b.field.nullable THEN InvalidArgument(b)
    ELSE
    LET byte_index == b.row_count \div 8
        bit_index == b.row_count % 8
        \* if byte_index >= self.null_bitmap.len() { self.null_bitmap.push(0) }
        pushed == IF byte_index >= Len(b.null_bitmap)
                  THEN Append(b.null_bitmap, 0) ELSE b.null_bitmap
    IN
    \* self.null_bitmap[byte_index] |= 1 << bit_index: the index is checked
    IF byte_index >= Len(pushed)
    THEN Panic([b EXCEPT !.null_bitmap = pushed])
    ELSE
    LET bitmap == [pushed EXCEPT ![byte_index + 1] = BitOr(@, bit_index)]
        size == DataType_size(b.field.data_type)
    IN
    IF is_variable_length(b.field.data_type)
    THEN Ok([b EXCEPT !.null_bitmap = bitmap,
                      !.offsets = Append(@, current_offset(b)),
                      !.row_count = @ + 1])
    ELSE Ok([b EXCEPT !.null_bitmap = bitmap,
                      !.data = IF size /= None THEN @ \o Zeros(size[1]) ELSE @,
                      !.row_count = @ + 1])

append_bool(b, value) ==
    IF b.field.data_type.kind = "Boolean"
    THEN Ok([b EXCEPT !.data = Append(@, IF value THEN 1 ELSE 0),
                      !.row_count = @ + 1])
    ELSE InvalidArgument(b)

append_u8(b, value) ==
    IF b.field.data_type.kind = "UInt8"
    THEN Ok([b EXCEPT !.data = Append(@, value), !.row_count = @ + 1])
    ELSE InvalidArgument(b)

append_u64(b, value) ==
    IF b.field.data_type.kind = "UInt64"
    THEN Ok([b EXCEPT !.data = @ \o to_le_bytes(value, 8), !.row_count = @ + 1])
    ELSE InvalidArgument(b)

append_timestamp(b, value) ==
    IF b.field.data_type.kind = "Timestamp"
    THEN Ok([b EXCEPT !.data = @ \o to_le_bytes(value, 8), !.row_count = @ + 1])
    ELSE InvalidArgument(b)

\* value is the string's bytes
append_string(b, value) ==
    IF b.field.data_type.kind = "String"
    THEN Ok([b EXCEPT !.data = @ \o value,
                      !.offsets = Append(@, current_offset(b) + Len(value)),
                      !.row_count = @ + 1])
    ELSE InvalidArgument(b)

\* append_binary without the length check of the FixedBinary arm
append_binary_unchecked(b, value) ==
    CASE b.field.data_type.kind = "Binary" ->
            Ok([b EXCEPT !.data = @ \o value,
                         !.offsets = Append(@, current_offset(b) + Len(value)),
                         !.row_count = @ + 1])
      [] b.field.data_type.kind = "FixedBinary" ->
            Ok([b EXCEPT !.data = @ \o value, !.row_count = @ + 1])
      [] OTHER -> InvalidArgument(b)

append_binary(b, value) ==
    CASE b.field.data_type.kind = "Binary" ->
            Ok([b EXCEPT !.data = @ \o value,
                         !.offsets = Append(@, current_offset(b) + Len(value)),
                         !.row_count = @ + 1])
      [] b.field.data_type.kind = "FixedBinary" ->
            IF Len(value) /= b.field.data_type.size
            THEN InvalidArgument(b)
            ELSE Ok([b EXCEPT !.data = @ \o value, !.row_count = @ + 1])
      [] OTHER -> InvalidArgument(b)

\* write_to_file, lines 840-885: the header the writer computes
write_header(b) ==
    LET null_bitmap_size == IF b.field.nullable THEN (b.row_count + 7) \div 8 ELSE 0
        null_bitmap_offset == IF null_bitmap_size > 0 THEN HeaderSize ELSE 0
        offsets_size == IF is_variable_length(b.field.data_type)
                        THEN (b.row_count + 1) * 8 ELSE 0
        offsets_offset == IF offsets_size > 0 THEN HeaderSize + null_bitmap_size ELSE 0
        data_offset == HeaderSize + null_bitmap_size + offsets_size
    IN [ColumnHeader_new(b.row_count, b.field.data_type, b.field.nullable, b.compression)
          EXCEPT !.data_offset = data_offset,
                 !.data_size = Len(b.data),
                 !.null_bitmap_offset = null_bitmap_offset,
                 !.null_bitmap_size = null_bitmap_size,
                 !.offsets_offset = offsets_offset,
                 !.offsets_size = offsets_size]

\* write_to_file, lines 896-899: the bytes the null bitmap write puts out
written_null_bitmap(b) ==
    IF write_header(b).null_bitmap_size > 0 THEN b.null_bitmap ELSE <<>>

\* write_to_file, lines 901-906: the u64 entries the offsets loop puts out
written_offsets(b) ==
    IF write_header(b).offsets_size > 0 THEN b.offsets ELSE <<>>

\* write_to_file: the bytes of the file it leaves
write_to_file(b) ==
    header_bytes(write_header(b))
    \o written_null_bitmap(b)
    \o Flatten([i \in 1..Len(written_offsets(b)) |-> to_le_bytes(written_offsets(b)[i], 8)])
    \o b.data

-----------------------------------------------------------------------------
(* The mapping of a file (mmap.rs, platform/linux.rs) as the reader sees it *)

\* utils/alignment.rs align_up, for a power-of-two align
align_up(value, align) == ((value + align - 1) \div align) * align

\* The byte at offset p from the start of a mapping of the file m.  The kernel
\* maps whole pages: past the end of the file and inside its last page a read
\* gives 0, past the last page the access faults (-1).
ReadByte(m, p) ==
    IF p < 0 THEN -1
    ELSE IF p < Len(m) THEN m[p + 1]
    ELSE IF p < align_up(Len(m), PageSize) THEN 0
    ELSE -1

\* std::slice::from_raw_parts(base + start, len), read out; Fault if any byte
\* of it lies outside the mapped pages
ReadSlice(m, start, len) ==
    IF start >= PageSize \/ len >= PageSize \/ start < 0 \/ len < 0 THEN Fault
    ELSE IF \E k \in 0..(len - 1) : ReadByte(m, start + k) = -1 THEN Fault
    ELSE Some([k \in 1..len |-> ReadByte(m, start + k - 1)])

\* a little-endian integer of n bytes at offset p of the mapping
ReadInt(m, p, n) ==
    LET s == ReadSlice(m, p, n) IN
    IF s = Fault THEN Fault ELSE Some(from_le_bytes(s[1]))

\* the fields of the header, read through the header pointer (offset 0)
hdr_version(m) == from_le_bytes(SubSeq(m, 9, 12))
hdr_row_count(m) == from_le_bytes(SubSeq(m, 17, 24))
hdr_data_type(m) == from_le_bytes(SubSeq(m, 25, 28))
hdr_nullable(m) == m[29]
hdr_compression(m) == from_le_bytes(SubSeq(m, 33, 36))
hdr_data_offset(m) == from_le_bytes(SubSeq(m, 41, 48))
hdr_data_size(m) == from_le_bytes(SubSeq(m, 49, 56))
hdr_null_bitmap_offset(m) == from_le_bytes(SubSeq(m, 57, 64))
hdr_null_bitmap_size(m) == from_le_bytes(SubSeq(m, 65, 72))
hdr_offsets_offset(m) == from_le_bytes(SubSeq(m, 73, 80))
hdr_offsets_size(m) == from_le_bytes(SubSeq(m, 81, 88))

-----------------------------------------------------------------------------
(* Column (columnar/column.rs).  A pointer into the mapping is its offset   *)
(* from the start of the mapping; the null pointer is None.  The mapping of *)
(* a file starts on a page boundary, so an address is aligned as its offset *)
(* is.                                                                      *)

NoColumn == [mmap |-> <<>>, field |-> Field_new("column", DT("Boolean"), FALSE),
             data_ptr |-> 0, null_bitmap_ptr |-> None, offsets_ptr |-> None,
             checked |-> FALSE]

\* Column::open on a file that exists with bytes m.  `checked` says whether
\* the build traps on a misaligned or overflowing operation (debug
\* assertions) or performs it (release).
\* res: "ok", "io" (the mapping call failed), "invalid_argument", "panic".
Column_open(m, checked) ==
    IF Len(m) = 0 THEN [res |-> "io", col |-> NoColumn]
    ELSE IF Len(m) < HeaderSize THEN [res |-> "invalid_argument", col |-> NoColumn]
    ELSE IF SubSeq(m, 1, 8) /= Magic THEN [res |-> "invalid_argument", col |-> NoColumn]
    ELSE IF u32_to_data_type(hdr_data_type(m)) = None THEN [res |-> "panic", col |-> NoColumn]
    ELSE [res |-> "ok",
          col |-> [mmap |-> m,
                   field |-> Field_new("column", u32_to_data_type(hdr_data_type(m))[1],
                                       hdr_nullable(m) /= 0),
                   data_ptr |-> hdr_data_offset(m),
                   null_bitmap_ptr |-> IF hdr_nullable(m) /= 0
                                       THEN Some(hdr_null_bitmap_offset(m)) ELSE None,
                   offsets_ptr |-> IF hdr_offsets_size(m) > 0
                                   THEN Some(hdr_offsets_offset(m)) ELSE None,
                   checked |-> checked]]

row_count(c) == hdr_row_count(c.mmap)

\* the byte of the null bitmap is_null reads for a row: None when it reads none
null_byte(c, row_index) ==
    IF ~c.field.nullable \/ c.null_bitmap_ptr = None THEN None
    ELSE Some(ReadByte(c.mmap, c.null_bitmap_ptr[1] + (row_index \div 8)))

\* Column::is_null; a faulting read is reported by the accessors below
is_null(c, row_index) ==
    /\ null_byte(c, row_index) /= None
    /\ null_byte(c, row_index)[1] /= -1
    /\ BitIsSet(null_byte(c, row_index)[1], row_index % 8)

is_null_faults(c, row_index) ==
    null_byte(c, row_index) /= None /\ null_byte(c, row_index)[1] = -1

\* *(ptr as *const T) for an integer T of n bytes at offset p: a misaligned
\* pointer traps in a checked build
Deref(c, p, n) ==
    IF c.checked /\ p % n /= 0 THEN Fault ELSE ReadInt(c.mmap, p, n)

\* Column::get_bytes
get_bytes(c, row_index) ==
    IF is_null_faults(c, row_index) THEN Fault
    ELSE IF is_null(c, row_index) THEN None
    ELSE IF is_variable_length(c.field.data_type) THEN
        IF c.offsets_ptr = None THEN None
        ELSE LET start_offset == Deref(c, c.offsets_ptr[1] + 8 * row_index, 8)
                 end_offset == Deref(c, c.offsets_ptr[1] + 8 * (row_index + 1), 8)
             IN IF start_offset = Fault \/ end_offset = Fault THEN Fault
                ELSE IF end_offset[1] < start_offset[1] THEN Fault
                ELSE IF start_offset[1] = Huge \/ end_offset[1] = Huge THEN Fault
                ELSE ReadSlice(c.mmap, c.data_ptr + start_offset[1],
                               end_offset[1] - start_offset[1])
    ELSE LET size == DataType_size(c.field.data_type)[1]
         IN ReadSlice(c.mmap, c.data_ptr + row_index * size, size)

\* the accessors of the one-byte types read *self.data_ptr.add(row_index)
get_u8(c, row_index) ==
    IF is_null_faults(c, row_index) THEN Fault
    ELSE IF is_null(c, row_index) THEN None
    ELSE IF c.field.data_type.kind = "UInt8"
    THEN ReadInt(c.mmap, c.data_ptr + row_index, 1)
    ELSE None

get_bool(c, row_index) ==
    IF is_null_faults(c, row_index) THEN Fault
    ELSE IF is_null(c, row_index) THEN None
    ELSE IF c.field.data_type.kind = "Boolean"
    THEN LET v == ReadInt(c.mmap, c.data_ptr + row_index, 1)
         IN IF v = Fault THEN Fault ELSE Some(v[1] /= 0)
    ELSE None

get_u64(c, row_index) ==
    IF is_null_faults(c, row_index) THEN Fault
    ELSE IF is_null(c, row_index) THEN None
    ELSE IF c.field.data_type.kind = "UInt64"
    THEN Deref(c, c.data_ptr + row_index * 8, 8)
    ELSE None

get_timestamp(c, row_index) ==
    IF is_null_faults(c, row_index) THEN Fault
    ELSE IF is_null(c, row_index) THEN None
    ELSE IF c.field.data_type.kind = "Timestamp"
    THEN Deref(c, c.data_ptr + row_index * 8, 8)
    ELSE None

\* std::str::from_utf8(bytes).is_ok(), exact for sequences whose bytes of 128
\* or more, if any, are 0xFF (which no UTF-8 encoding contains)
is_utf8(bytes) == \A k \in 1..Len(bytes) : bytes[k] < 128

\* Column::get_string: the string's bytes
get_string(c, row_index) ==
    IF is_null_faults(c, row_index) THEN Fault
    ELSE IF is_null(c, row_index) THEN None
    ELSE IF c.field.data_type.kind = "String"
    THEN LET bytes == get_bytes(c, row_index)
         IN IF bytes = Fault THEN Fault
            ELSE IF bytes /= None /\ is_utf8(bytes[1]) THEN bytes ELSE None
    ELSE None

get_binary(c, row_index) ==
    IF is_null_faults(c, row_index) THEN Fault
    ELSE IF is_null(c, row_index) THEN None
    ELSE IF c.field.data_type.kind \in {"Binary", "FixedBinary"}
    THEN get_bytes(c, row_index)
    ELSE None

-----------------------------------------------------------------------------
(* The state machine of one column: a builder is created, rows are appended, *)
(* the builder is written to a file, the file is opened as a Column.         *)

NoTable == [res |-> "none", row_count |-> 0, columns |-> <<>>]
NoSchema == [fields |-> <<>>, field_indices |-> <<>>]

\* no query running, an Index just created (Index::new: data is empty)
QueryIdle ==
    /\ calls = <<>>
    /\ index = [data |-> <<>>]
    /\ indexed = None

\* no mapping made: both counters are 0 (mmap.rs lines 18-19)
MmapIdle ==
    /\ TOTAL_MAPPED_MEMORY = 0
    /\ ACTIVE_MAPPINGS = 0
    /\ views = {}
    /\ mapcalls = <<>>
    /\ syscalls = 0
    /\ space = <<>>
    /\ tbuilder = <<>>

\* the fields a builder is created for under Spec
Fields ==
    {Field_new("column", dt, n) :
        dt \in {DT("Boolean"), DT("UInt8"), DT("UInt64"), DT("Timestamp"),
                DT("String"), DT("Binary"), FixedBinary(2)},
        n \in BOOLEAN}

\* the fields a builder is created for under SpecDeep
DeepFields ==
    {Field_new("column", dt, TRUE) : dt \in {DT("UInt8"), DT("String")}}
    \cup {Field_new("column", DT("UInt8"), FALSE)}

\* the values the appends are called with; one of each under SpecDeep
U8Values(deep) == IF deep THEN {1} ELSE {1, 2}
U64Values(deep) == IF deep THEN {1} ELSE {1, 258}
BoolValues(deep) == IF deep THEN {TRUE} ELSE {TRUE, FALSE}
StringValues(deep) == IF deep THEN {<<97>>} ELSE {<<>>, <<97>>, <<98, 99>>}
BinaryValues(deep) == IF deep THEN {<<1, 2>>} ELSE {<<>>, <<255>>, <<1, 2>>, <<3, 4>>}

InitRest ==
    /\ hist = <<>>
    /\ failed = FALSE
    /\ last = [op |-> "new", arg |-> None, res |-> "ok"]
    /\ phase = "building"
    /\ file = <<>>
    /\ column = NoColumn
    /\ dir = <<>>
    /\ table = NoTable
    /\ fieldlist = <<>>
    /\ schema = NoSchema
    /\ QueryIdle
    /\ MmapIdle

Init ==
    /\ builder \in {ColumnBuilder_new(f, 0) : f \in Fields}
    /\ InitRest

InitDeep ==
    /\ builder \in {ColumnBuilder_new(f, 0) : f \in DeepFields}
    /\ InitRest

\* one call of an append: r is what the append returns for the builder, hv the
\* row the caller appended.  A panic leaves the builder behind.
Step(op, r, hv) ==
    /\ builder' = r.b
    /\ hist' = IF r.res = "ok" THEN Append(hist, hv) ELSE hist
    /\ failed' = (failed \/ r.res /= "ok")
    /\ last' = [op |-> op, arg |-> hv, res |-> r.res]
    /\ phase' = IF r.res = "panic" THEN "panicked" ELSE phase
    /\ UNCHANGED <<file, column, dir, table, fieldlist, schema, qvars, mvars, tvars>>

CanAppend(R) == phase = "building" /\ builder.row_count < R

AppendNull(R) ==
    /\ CanAppend(R)
    /\ Step("append_null", append_null(builder), None)

AppendBool(R, v) ==
    /\ CanAppend(R)
    /\ Step("append_bool", append_bool(builder, v), Some(v))

AppendU8(R, v) ==
    /\ CanAppend(R)
    /\ Step("append_u8", append_u8(builder, v), Some(v))

AppendU64(R, v) ==
    /\ CanAppend(R)
    /\ Step("append_u64", append_u64(builder, v), Some(v))

AppendTimestamp(R, v) ==
    /\ CanAppend(R)
    /\ Step("append_timestamp", append_timestamp(builder, v), Some(v))

AppendString(R, v) ==
    /\ CanAppend(R)
    /\ Step("append_string", append_string(builder, v), Some(v))

AppendBinary(R, v) ==
    /\ CanAppend(R)
    /\ Step("append_binary", append_binary(builder, v), Some(v))

\* ColumnBuilder::write_to_file on a path that can be created.  The model
\* writes a builder once, after its last append.
WriteToFile ==
    /\ phase = "building"
    /\ file' = write_to_file(builder)
    /\ phase' = "written"
    /\ last' = [op |-> "write_to_file", arg |-> None, res |-> "ok"]
    /\ UNCHANGED <<builder, hist, failed, column, dir, table, fieldlist, schema, qvars, mvars, tvars>>

\* Column::open on the file written
ColumnOpen ==
    /\ phase = "written"
    /\ \E checked \in BOOLEAN :
          /\ column' = Column_open(file, checked).col
          /\ last' = [op |-> "open", arg |-> None, res |-> Column_open(file, checked).res]
    /\ phase' = "opened"
    /\ UNCHANGED <<builder, hist, failed, file, dir, table, fieldlist, schema, qvars, mvars, tvars>>

BuilderNext(R, deep) ==
    \/ AppendNull(R)
    \/ \E v \in BoolValues(deep) : AppendBool(R, v)
    \/ \E v \in U8Values(deep) : AppendU8(R, v)
    \/ \E v \in U64Values(deep) : AppendU64(R, v)
    \/ \E v \in U64Values(deep) : AppendTimestamp(R, v)
    \/ \E v \in StringValues(deep) : AppendString(R, v)
    \/ \E v \in BinaryValues(deep) : AppendBinary(R, v)
    \/ WriteToFile
    \/ ColumnOpen

Next == BuilderNext(MaxRows, FALSE)

NextDeep == BuilderNext(DeepRows, TRUE)

Spec == Init /\ [][Next]_vars

SpecDeep == InitDeep /\ [][NextDeep]_vars

-----------------------------------------------------------------------------
(* Properties of the column builder, the writer and the reader *)

kind == builder.field.data_type.kind
nullable == builder.field.nullable
Opened == phase = "opened" /\ last.res = "ok"
Written == phase \in {"written", "opened"}

\* the typed accessor that matches the builder's field type
get_T(c, k, i) ==
    CASE k = "Boolean" -> get_bool(c, i)
      [] k = "UInt8" -> get_u8(c, i)
      [] k = "UInt64" -> get_u64(c, i)
      [] k = "Timestamp" -> get_timestamp(c, i)
      [] k = "String" -> get_string(c, i)
      [] k \in {"Binary", "FixedBinary"} -> get_binary(c, i)

\* the rows of the opened column read back as the caller appended them
RowsReadBack ==
    /\ row_count(column) = Len(hist)
    /\ \A i \in 1..Len(hist) : get_T(column, kind, i - 1) = hist[i]

\* C1: for a builder of a fixed-width type, nullable or not, and any sequence
\* of n successful appends, write_to_file followed by Column::open yields
\* row_count = n and get_T(i) returns the i-th appended value, None for a null.
C1_FixedRoundTrip ==
    (phase = "opened" /\ ~is_variable_length(builder.field.data_type))
        => (last.res = "ok" /\ RowsReadBack)

\* C1, the part of it the code satisfies: the same for non-nullable fields
C1_NonNullableFixedRoundTrip ==
    (phase = "opened" /\ ~is_variable_length(builder.field.data_type) /\ ~nullable)
        => (last.res = "ok" /\ RowsReadBack)

\* the entry k of the offsets array, read back through the column's pointer
offsets_read(c, k) ==
    IF c.offsets_ptr = None THEN Fault ELSE Deref(c, c.offsets_ptr[1] + 8 * k, 8)

\* C2: after write_to_file and Column::open of a String column, get_string(i)
\* returns s_i for every non-null row, and the offsets read back satisfy
\* offsets[i+1] - offsets[i] = len(s_i) for non-null rows and 0 for null rows.
C2_StringRoundTrip ==
    (phase = "opened" /\ kind = "String")
        => /\ last.res = "ok"
           /\ \A i \in 1..Len(hist) :
                /\ offsets_read(column, i - 1) /= Fault
                /\ offsets_read(column, i) /= Fault
                /\ offsets_read(column, i)[1] - offsets_read(column, i - 1)[1]
                      = (IF hist[i] = None THEN 0 ELSE Len(hist[i][1]))
                /\ hist[i] /= None => get_string(column, i - 1) = hist[i]

RECURSIVE NonDecreasing(_)
NonDecreasing(s) ==
    Len(s) < 2 \/ (s[1] <= s[2] /\ NonDecreasing(Tail(s)))

\* C3: for a String or Binary builder with n rows, the offsets section that
\* write_to_file writes has exactly n+1 entries, is non-decreasing, and its
\* last entry equals data.len().
C3_OffsetsSection ==
    (Written /\ is_variable_length(builder.field.data_type))
        => /\ Len(written_offsets(builder)) = builder.row_count + 1
           /\ NonDecreasing(written_offsets(builder))
           /\ written_offsets(builder)[Len(written_offsets(builder))] = Len(builder.data)

\* C3, the part of it the code satisfies: one entry per row, the end of the
\* row, non-decreasing, the last equal to data.len()
C3_OffsetsAreRowEnds ==
    (Written /\ is_variable_length(builder.field.data_type))
        => /\ Len(written_offsets(builder)) = builder.row_count
           /\ NonDecreasing(written_offsets(builder))
           /\ builder.row_count > 0 =>
                 written_offsets(builder)[builder.row_count] = Len(builder.data)

\* C4: after any sequence of append calls of which exactly k returned
\* success, the builder's row_count is k, and the header of the file that
\* write_to_file produces reports row_count = k.
C4_RowCountIsSuccesses ==
    /\ builder.row_count = Len(hist)
    /\ Written => (Len(file) >= HeaderSize /\ hdr_row_count(file) = Len(hist))

C4_Witness ==
    /\ phase = "written"
    /\ failed
    /\ Len(hist) >= 2
    /\ hdr_row_count(file) = Len(hist)

CeilDiv8(n) == (n + 7) \div 8

\* C5: a nullable builder with n rows holds and writes a null bitmap of
\* exactly ceil(n/8) bytes whose bit (i mod 8) of byte (i div 8) is set iff
\* row i was appended with append_null; for a non-nullable column no bitmap
\* is written and is_null(i) is false for every i.
C5_NullBitmap ==
    /\ (nullable /\ phase /= "panicked") =>
          /\ Len(builder.null_bitmap) = CeilDiv8(Len(hist))
          /\ \A i \in 0..(Len(hist) - 1) :
                BitIsSet(builder.null_bitmap[(i \div 8) + 1], i % 8) <=> (hist[i + 1] = None)
          /\ Written => written_null_bitmap(builder) = builder.null_bitmap
    /\ ~nullable =>
          /\ Written => written_null_bitmap(builder) = <<>>
          /\ Opened => \A i \in 0..(Len(hist) - 1) : ~is_null(column, i)

\* C5, the part of it the code satisfies: the non-nullable half
C5_NonNullable ==
    ~nullable =>
          /\ Written => written_null_bitmap(builder) = <<>>
          /\ Opened => \A i \in 0..(Len(hist) - 1) : ~is_null(column, i)

\* C6: append_null is rejected iff the field is not nullable: on a
\* non-nullable builder it returns invalid-argument and leaves the builder
\* unchanged; on a nullable builder it succeeds in every reachable builder
\* state and adds exactly one row.
C6_AppendNull ==
    [][last'.op = "append_null" =>
          IF ~nullable
          THEN last'.res = "invalid_argument" /\ builder' = builder
          ELSE last'.res = "ok" /\ builder'.row_count = builder.row_count + 1]_vars

\* the field type an append method is for
MethodMatches(op, dt, arg) ==
    CASE op = "append_bool" -> dt.kind = "Boolean"
      [] op = "append_u8" -> dt.kind = "UInt8"
      [] op = "append_u64" -> dt.kind = "UInt64"
      [] op = "append_timestamp" -> dt.kind = "Timestamp"
      [] op = "append_string" -> dt.kind = "String"
      [] op = "append_binary" ->
            \/ dt.kind = "Binary"
            \/ dt.kind = "FixedBinary" /\ Len(arg[1]) = dt.size
      [] OTHER -> TRUE

\* C7: a typed append whose type does not match the field type, and an
\* append_binary on a FixedBinary(size) field with a value of another length,
\* return invalid-argument and leave the builder unchanged.
C7_MismatchRejected ==
    [][~MethodMatches(last'.op, builder.field.data_type, last'.arg) =>
          (last'.res = "invalid_argument" /\ builder' = builder)]_vars

C7_Witness ==
    /\ last.op = "append_binary"
    /\ kind = "FixedBinary"
    /\ Len(last.arg[1]) /= builder.field.data_type.size
    /\ last.res = "invalid_argument"
    /\ builder.row_count >= 1

-----------------------------------------------------------------------------
(* Column::open on any file: SpecOpen starts from a file whose header fields *)
(* are chosen freely, and opens it.                                          *)

CraftedHeaders ==
    {[magic |-> mg, version |-> v, row_count |-> rc, data_type |-> tag,
      nullable |-> nl, compression |-> 0,
      data_offset |-> HeaderSize + nbs + os, data_size |-> ds,
      null_bitmap_offset |-> IF nbs > 0 THEN HeaderSize ELSE 0,
      null_bitmap_size |-> nbs,
      offsets_offset |-> IF os > 0 THEN HeaderSize + nbs ELSE 0,
      offsets_size |-> os] :
        mg \in {Magic, <<85, 76, 84, 82, 65, 67, 79, 88>>},
        v \in {1, 2},
        rc \in 0..OpenRows,
        tag \in {0, data_type_to_u32(DT("UInt8")), data_type_to_u32(DT("String"))},
        nl \in {0, 1},
        nbs \in {0, 1},
        os \in {0} \cup {8 * k : k \in 1..(OpenRows + 1)},
        ds \in {0, 1}}

\* the header followed by the sections it declares, or by one byte less
CraftedFiles ==
    {header_bytes(h) \o Zeros(h.null_bitmap_size + h.offsets_size + h.data_size - short) :
        h \in {x \in CraftedHeaders : x.null_bitmap_size + x.offsets_size + x.data_size > 0},
        short \in {0, 1}}
    \cup {header_bytes(h) : h \in CraftedHeaders}
    \cup {<<>>, SubSeq(header_bytes(ColumnHeader_new(0, DT("UInt8"), FALSE, 0)), 1, 50)}

InitOpen ==
    /\ builder = ColumnBuilder_new(Field_new("column", DT("UInt8"), FALSE), 0)
    /\ hist = <<>>
    /\ failed = FALSE
    /\ last = [op |-> "new", arg |-> None, res |-> "ok"]
    /\ phase = "written"
    /\ file \in CraftedFiles
    /\ column = NoColumn
    /\ dir = <<>>
    /\ table = NoTable
    /\ fieldlist = <<>>
    /\ schema = NoSchema
    /\ QueryIdle
    /\ MmapIdle

NextOpen == ColumnOpen

SpecOpen == InitOpen /\ [][NextOpen]_vars

\* the validations of the header that the specification of Column::open lists
HeaderValid(m) ==
    /\ Len(m) >= HeaderSize
    /\ SubSeq(m, 1, 8) = Magic
    /\ hdr_version(m) = 1
    /\ u32_to_data_type(hdr_data_type(m)) /= None
    /\ hdr_data_offset(m) + hdr_data_size(m) <= Len(m)
    /\ (hdr_null_bitmap_size(m) = 0) <=> (hdr_nullable(m) = 0)
    /\ hdr_null_bitmap_size(m) /= 0 =>
          hdr_null_bitmap_size(m) = CeilDiv8(hdr_row_count(m))
    /\ hdr_offsets_size(m) =
          (IF is_variable_length(u32_to_data_type(hdr_data_type(m))[1])
           THEN (hdr_row_count(m) + 1) * 8 ELSE 0)

\* C8: Column::open returns an invalid-argument error for every file that
\* violates any of the header validations, and succeeds only when all hold.
C8_OpenValidates ==
    phase = "opened" =>
        /\ ~HeaderValid(file) => last.res = "invalid_argument"
        /\ last.res = "ok" => HeaderValid(file)

\* C8, the part of it the code satisfies: a file of 1 to 111 bytes, and a
\* file of 112 bytes or more with another magic, is an invalid-argument error
C8_SizeAndMagic ==
    (phase = "opened" /\ Len(file) > 0
        /\ (Len(file) < HeaderSize \/ SubSeq(file, 1, 8) /= Magic))
        => last.res = "invalid_argument"

-----------------------------------------------------------------------------
(* Schema (columnar/schema.rs).  field_indices is the HashMap from a name   *)
(* to an index (from 0): a function on the set of names.                    *)

\* HashMap::insert: the entry for key is replaced
MapInsert(map, key, value) ==
    [k \in DOMAIN map \cup {key} |-> IF k = key THEN value ELSE map[k]]

RECURSIVE insert_indices(_, _, _)
\* the loop of Schema::new from field i (from 1) on
insert_indices(fields, i, field_indices) ==
    IF i > Len(fields) THEN field_indices
    ELSE insert_indices(fields, i + 1, MapInsert(field_indices, fields[i].name, i - 1))

\* Schema::new: it returns a Schema for every list of fields
Schema_new(fields) ==
    [res |-> "ok",
     schema |-> [fields |-> fields, field_indices |-> insert_indices(fields, 1, <<>>)]]

\* Schema::field_index
field_index(sch, name) ==
    IF name \in DOMAIN sch.field_indices THEN Some(sch.field_indices[name]) ELSE None

FieldNames == {"a", "b", "c"}

SeqsUpTo(S, n) == UNION {[1..k -> S] : k \in 0..n}

InitSchema ==
    /\ builder = ColumnBuilder_new(Field_new("column", DT("UInt8"), FALSE), 0)
    /\ hist = <<>>
    /\ failed = FALSE
    /\ last = [op |-> "new", arg |-> None, res |-> "ok"]
    /\ phase = "schema"
    /\ file = <<>>
    /\ column = NoColumn
    /\ dir = <<>>
    /\ table = NoTable
    /\ fieldlist \in SeqsUpTo({Field_new(n, dt, FALSE) :
                                 n \in FieldNames, dt \in {DT("UInt8"), DT("String")}},
                              MaxFields)
    /\ schema = NoSchema
    /\ QueryIdle
    /\ MmapIdle

\* Schema::new(fieldlist)
SchemaNew ==
    /\ phase = "schema"
    /\ schema' = Schema_new(fieldlist).schema
    /\ last' = [op |-> "Schema::new", arg |-> None, res |-> Schema_new(fieldlist).res]
    /\ phase' = "schema_built"
    /\ UNCHANGED <<builder, hist, failed, file, column, dir, table, fieldlist, qvars, mvars, tvars>>

NextSchema == SchemaNew

SpecSchema == InitSchema /\ [][NextSchema]_vars

HasDuplicateNames(fields) ==
    \E i, j \in 1..Len(fields) : i /= j /\ fields[i].name = fields[j].name

\* C10: Schema::new rejects a field list with two fields of the same name, so
\* in every schema that exists field names are unique and field_index(name)
\* is the index of the single field with that name.
C10_UniqueNames ==
    phase = "schema_built" =>
        /\ HasDuplicateNames(fieldlist) => last.res /= "ok"
        /\ last.res = "ok" =>
              /\ ~HasDuplicateNames(schema.fields)
              /\ \A i \in 1..Len(schema.fields) :
                    field_index(schema, schema.fields[i].name) = Some(i - 1)

\* C10, the part of it the code satisfies: field_index(name) is the index of
\* the last field with that name
C10_LastIndexWins ==
    (phase = "schema_built" /\ last.res = "ok") =>
        \A i \in 1..Len(schema.fields) :
            (\A j \in (i + 1)..Len(schema.fields) :
                 schema.fields[j].name /= schema.fields[i].name)
               => field_index(schema, schema.fields[i].name) = Some(i - 1)

-----------------------------------------------------------------------------
(* Table::open (columnar/table.rs).  A table directory is described by what  *)
(* lies at each path Table::open looks at: the directory, schema.json, and   *)
(* for each field of the schema a file <field>.col.                          *)

\* the schema Table::open builds (lines 54-61)
TableSchema ==
    Schema_new(<<Field_new("id", DT("UInt64"), FALSE),
                 Field_new("name", DT("String"), FALSE),
                 Field_new("age", DT("UInt8"), TRUE),
                 Field_new("email", DT("String"), TRUE),
                 Field_new("active", DT("Boolean"), FALSE),
                 Field_new("created_at", DT("Timestamp"), FALSE)>>).schema

\* one append of a value of the field's type
append_value(b) ==
    CASE b.field.data_type.kind = "UInt64" -> append_u64(b, 1).b
      [] b.field.data_type.kind = "String" -> append_string(b, <<97>>).b
      [] b.field.data_type.kind = "UInt8" -> append_u8(b, 1).b
      [] b.field.data_type.kind = "Boolean" -> append_bool(b, TRUE).b
      [] b.field.data_type.kind = "Timestamp" -> append_timestamp(b, 1).b

RECURSIVE append_rows(_, _)
append_rows(b, n) == IF n = 0 THEN b ELSE append_rows(append_value(b), n - 1)

\* what lies at <field>.col: nothing, or a file
\*   "missing"  no file
\*   "empty"    a file of 0 bytes
\*   "badmagic" 112 bytes or more that do not start with ULTRACOL
\*   "badtag"   a column file whose data_type tag is no type
\*   "written"  the file write_to_file leaves for a builder of the field
\*              with `rows` rows
\*   "bytes"    a file with the bytes given
ColFiles ==
    {[what |-> w, rows |-> 0] : w \in {"missing", "empty", "badmagic", "badtag"}}
    \cup {[what |-> "written", rows |-> r] : r \in 0..MaxTableRows}

\* the bytes of the file a description stands for
FileOf(field, cf) ==
    CASE cf.what = "empty" -> <<>>
      [] cf.what = "badmagic" -> Zeros(HeaderSize)
      [] cf.what = "badtag" ->
            header_bytes([ColumnHeader_new(0, field.data_type, field.nullable, 0)
                            EXCEPT !.data_type = 0, !.data_offset = HeaderSize])
      [] cf.what = "written" ->
            write_to_file(append_rows(ColumnBuilder_new(field, 0), cf.rows))
      [] cf.what = "bytes" -> cf.bytes

RECURSIVE open_columns(_, _, _, _, _)
\* the loop of Table::open over schema.fields from field i on; columns maps
\* the names inserted so far to their Column
open_columns(d, checked, i, columns, rc) ==
    IF i > Len(TableSchema.fields)
    THEN [res |-> "ok", row_count |-> rc, columns |-> columns]
    ELSE
    LET field == TableSchema.fields[i]
        cf == d.cols[i]
    IN
    IF cf.what = "missing"
    THEN [res |-> "invalid_argument", row_count |-> 0, columns |-> <<>>]
    ELSE
    LET r == Column_open(FileOf(field, cf), checked) IN
    IF r.res /= "ok"
    THEN [res |-> r.res, row_count |-> 0, columns |-> <<>>]
    ELSE IF DOMAIN columns /= {} /\ row_count(r.col) /= rc
    THEN [res |-> "invalid_argument", row_count |-> 0, columns |-> <<>>]
    ELSE open_columns(d, checked, i + 1,
                      MapInsert(columns, field.name, r.col),
                      IF DOMAIN columns = {} THEN row_count(r.col) ELSE rc)

\* Table::open
Table_open(d, checked) ==
    IF ~d.exists THEN [res |-> "invalid_argument", row_count |-> 0, columns |-> <<>>]
    ELSE IF ~d.schema_json THEN [res |-> "invalid_argument", row_count |-> 0, columns |-> <<>>]
    ELSE open_columns(d, checked, 1, <<>>, 0)

InitTable ==
    /\ builder = ColumnBuilder_new(Field_new("column", DT("UInt8"), FALSE), 0)
    /\ hist = <<>>
    /\ failed = FALSE
    /\ last = [op |-> "new", arg |-> None, res |-> "ok"]
    /\ phase = "table"
    /\ file = <<>>
    /\ column = NoColumn
    /\ \/ dir = [exists |-> FALSE, schema_json |-> FALSE,
                 cols |-> [i \in 1..Len(TableSchema.fields) |-> [what |-> "missing", rows |-> 0]]]
       \/ \E sj \in BOOLEAN, cols \in [1..Len(TableSchema.fields) -> ColFiles] :
             dir = [exists |-> TRUE, schema_json |-> sj, cols |-> cols]
    /\ table = NoTable
    /\ fieldlist = <<>>
    /\ schema = NoSchema
    /\ QueryIdle
    /\ MmapIdle

\* Table::open(name, base_dir) on the directory
TableOpen ==
    /\ phase = "table"
    /\ \E checked \in BOOLEAN : table' = Table_open(dir, checked)
    /\ last' = [op |-> "Table::open", arg |-> None, res |-> table'.res]
    /\ phase' = "table_opened"
    /\ UNCHANGED <<builder, hist, failed, file, column, dir, fieldlist, schema, qvars, mvars, tvars>>

NextTable == TableOpen

SpecTable == InitTable /\ [][NextTable]_vars

\* a column file is missing
SomeColumnMissing == \E i \in DOMAIN dir.cols : dir.cols[i].what = "missing"

\* the row counts of two column files differ
RowCountsDiffer ==
    \E i, j \in DOMAIN dir.cols :
        /\ dir.cols[i].what = "written"
        /\ dir.cols[j].what = "written"
        /\ dir.cols[i].rows /= dir.cols[j].rows

\* every field has one column and every column has the table's row count
TableConsistent ==
    /\ DOMAIN table.columns = {TableSchema.fields[i].name : i \in 1..Len(TableSchema.fields)}
    /\ \A n \in DOMAIN table.columns : row_count(table.columns[n]) = table.row_count

\* C9: for any table returned by Table::open every field of the schema has
\* exactly one column and every column's row_count equals table.row_count;
\* if a column file is missing or any column's row count differs from the
\* others, Table::open returns an invalid-argument error instead of a table.
C9_TableOpen ==
    phase = "table_opened" =>
        /\ table.res = "ok" => TableConsistent
        /\ (SomeColumnMissing \/ RowCountsDiffer) => table.res = "invalid_argument"

\* C9 where every column file that exists is one Column::open returns or
\* rejects as an invalid argument
C9_WhenColumnsOpenOrInvalid ==
    (phase = "table_opened"
        /\ \A i \in DOMAIN dir.cols : dir.cols[i].what \notin {"empty", "badtag"})
        => /\ table.res = "ok" => TableConsistent
           /\ (SomeColumnMissing \/ RowCountsDiffer) => table.res = "invalid_argument"

\* C9, the part of it the code satisfies: a table that is returned is
\* consistent, and with a missing column or differing row counts none is
\* returned
C9_NoInconsistentTable ==
    phase = "table_opened" =>
        /\ table.res = "ok" => TableConsistent
        /\ (SomeColumnMissing \/ RowCountsDiffer) => table.res /= "ok"

-----------------------------------------------------------------------------
(* Predicates (columnar/query.rs).  A Predicate is a record of one shape for *)
(* every variant: Compare uses column, op and value, And/Or/Not use args.    *)
(* evaluate returns Some(TRUE), Some(FALSE), or Fault when a read it makes   *)
(* of the column faults (the call panics or the process is killed).          *)

Compare(column_name, op, value) ==
    [tag |-> "Compare", column |-> column_name, op |-> op, value |-> value, args |-> <<>>]
And(ps) == [tag |-> "And", column |-> "", op |-> "", value |-> None, args |-> ps]
Or(ps) == [tag |-> "Or", column |-> "", op |-> "", value |-> None, args |-> ps]
Not(q) == [tag |-> "Not", column |-> "", op |-> "", value |-> None, args |-> <<q>>]
PTrue == [tag |-> "True", column |-> "", op |-> "", value |-> None, args |-> <<>>]
PFalse == [tag |-> "False", column |-> "", op |-> "", value |-> None, args |-> <<>>]

\* the order of byte slices (Ord for [u8]): a < b
slice_lt(a, b) ==
    \E k \in 1..Len(b) :
        /\ k <= Len(a) + 1
        /\ \A j \in 1..(k - 1) : a[j] = b[j]
        /\ (k = Len(a) + 1 \/ a[k] < b[k])

\* str::contains for a pattern given by its bytes
str_contains(a, b) ==
    \E k \in 0..(Len(a) - Len(b)) : SubSeq(a, k + 1, k + Len(b)) = b

\* Table::column
Table_column(t, name) == IF name \in DOMAIN t.columns THEN Some(t.columns[name]) ELSE None

\* the inner match of the Compare arm (lines 91-133): both slices are there
compare_values(op, row_value, compare_value) ==
    CASE op = "Eq" -> row_value = compare_value
      [] op = "Ne" -> row_value /= compare_value
      [] op = "Lt" -> slice_lt(row_value, compare_value)
      [] op = "Le" -> ~slice_lt(compare_value, row_value)
      [] op = "Gt" -> slice_lt(compare_value, row_value)
      [] op = "Ge" -> ~slice_lt(row_value, compare_value)
      [] op = "Like" -> is_utf8(row_value) /\ is_utf8(compare_value)
                            /\ str_contains(row_value, compare_value)
      [] op = "NotLike" -> ~(is_utf8(row_value) /\ is_utf8(compare_value)
                              /\ str_contains(row_value, compare_value))
      [] op = "In" -> FALSE
      [] op = "NotIn" -> TRUE
      [] OTHER -> FALSE

\* the Compare arm of Predicate::evaluate (lines 79-145)
evaluate_compare(p, t, row_index) ==
    LET col == Table_column(t, p.column) IN
    IF col = None THEN Some(FALSE)
    ELSE IF is_null_faults(col[1], row_index) THEN Fault
    ELSE IF p.op = "IsNull" THEN Some(is_null(col[1], row_index))
    ELSE IF p.op = "IsNotNull" THEN Some(~is_null(col[1], row_index))
    ELSE IF is_null(col[1], row_index) THEN Some(FALSE)
    ELSE LET row_value == get_bytes(col[1], row_index) IN
         IF row_value = Fault THEN Fault
         ELSE IF row_value = None THEN Some(FALSE)
         ELSE IF p.value = None THEN Some(FALSE)
         ELSE Some(compare_values(p.op, row_value[1], p.value[1]))

RECURSIVE evaluate(_, _, _)
RECURSIVE evaluate_and(_, _, _, _)
RECURSIVE evaluate_or(_, _, _, _)
RECURSIVE evaluate_or_no_short_circuit(_, _, _, _)

\* the loop of the And arm from predicate k on (lines 147-152)
evaluate_and(ps, k, t, row_index) ==
    IF k > Len(ps) THEN Some(TRUE)
    ELSE LET r == evaluate(ps[k], t, row_index) IN
         IF r = Fault THEN Fault
         ELSE IF ~r[1] THEN Some(FALSE)
         ELSE evaluate_and(ps, k + 1, t, row_index)

\* the Or arm returning what its last predicate gives
evaluate_or_no_short_circuit(ps, k, t, row_index) ==
    IF k > Len(ps) THEN Some(FALSE)
    ELSE LET r == evaluate(ps[k], t, row_index) IN
         IF r = Fault THEN Fault
         ELSE IF r[1] /\ k = Len(ps) THEN Some(TRUE)
         ELSE evaluate_or_no_short_circuit(ps, k + 1, t, row_index)

\* the loop of the Or arm from predicate k on (lines 155-160)
evaluate_or(ps, k, t, row_index) ==
    IF k > Len(ps) THEN Some(FALSE)
    ELSE LET r == evaluate(ps[k], t, row_index) IN
         IF r = Fault THEN Fault
         ELSE IF r[1] THEN Some(TRUE)
         ELSE evaluate_or(ps, k + 1, t, row_index)

\* Predicate::evaluate
evaluate(p, t, row_index) ==
    CASE p.tag = "Compare" -> evaluate_compare(p, t, row_index)
      [] p.tag = "And" -> evaluate_and(p.args, 1, t, row_index)
      [] p.tag = "Or" -> evaluate_or(p.args, 1, t, row_index)
      [] p.tag = "Not" ->
            LET r == evaluate(p.args[1], t, row_index) IN
            IF r = Fault THEN Fault ELSE Some(~r[1])
      [] p.tag = "True" -> Some(TRUE)
      [] p.tag = "False" -> Some(FALSE)

-----------------------------------------------------------------------------
(* The tables the queries run on: Table::open of a directory whose column   *)
(* files were written by a ColumnBuilder of each field, one append a row.   *)

\* one row as the caller gives it: the values of the two nullable fields
QueryRowKinds ==
    {[age |-> None, email |-> None],
     [age |-> Some(1), email |-> Some(<<97>>)],
     [age |-> Some(2), email |-> None]}

\* the value of a field in row k of the rows
ValueOf(name, rows, k) ==
    CASE name = "id" -> Some(k)
      [] name = "name" -> Some(<<97>>)
      [] name = "age" -> rows[k].age
      [] name = "email" -> rows[k].email
      [] name = "active" -> Some(TRUE)
      [] name = "created_at" -> Some(1)

\* one append of an optional value of the field's type (TableBuilder::add_row,
\* lines 179-356: append_null for None, the typed append otherwise)
append_option(b, v) ==
    IF v = None THEN append_null(b).b
    ELSE CASE b.field.data_type.kind = "UInt64" -> append_u64(b, v[1]).b
           [] b.field.data_type.kind = "String" -> append_string(b, v[1]).b
           [] b.field.data_type.kind = "UInt8" -> append_u8(b, v[1]).b
           [] b.field.data_type.kind = "Boolean" -> append_bool(b, v[1]).b
           [] b.field.data_type.kind = "Timestamp" -> append_timestamp(b, v[1]).b

RECURSIVE append_options(_, _, _)
append_options(b, values, k) ==
    IF k > Len(values) THEN b
    ELSE append_options(append_option(b, values[k]), values, k + 1)

\* the bytes of <field>.col for the rows
ColumnFile(field, rows) ==
    write_to_file(append_options(ColumnBuilder_new(field, 0),
                                 [k \in 1..Len(rows) |-> ValueOf(field.name, rows, k)], 1))

\* the directory of a table with the rows
QueryDir(rows) ==
    [exists |-> TRUE, schema_json |-> TRUE,
     cols |-> [i \in 1..Len(TableSchema.fields) |->
                  [what |-> "bytes", rows |-> Len(rows),
                   bytes |-> ColumnFile(TableSchema.fields[i], rows)]]]

QueryDirs(R) == {QueryDir(rows) : rows \in SeqsUpTo(QueryRowKinds, R)}

-----------------------------------------------------------------------------
(* Query (columnar/query.rs).  A call of evaluate or execute is a record a   *)
(* thread holds; execute advances one loop iteration a step.                 *)

Query_new(columns, predicate) ==
    [columns |-> columns, predicate |-> predicate, limit |-> None, offset |-> 0]
with_limit(q, limit) == [q EXCEPT !.limit = Some(limit)]
with_offset(q, offset) == [q EXCEPT !.offset = offset]

\* a thread that runs no call
IdleCall ==
    [op |-> "none", pc |-> "idle", query |-> Query_new(<<>>, PTrue),
     row_index |-> 0,     \* the loop variable of execute, the argument of evaluate
     selected |-> {},     \* the keys of the local `columns` map
     count |-> 0,
     results |-> <<>>,
     emitted |-> <<>>,    \* the row index each result row was made from
     evals |-> 0,         \* the calls of predicate.evaluate made so far
     res |-> None]

\* lines 217-228 with a name that is not in the table skipped
resolve_columns_skipping(q, t) ==
    [res |-> "ok",
     selected |-> {q.columns[k] : k \in 1..Len(q.columns)} \cap DOMAIN t.columns]

\* lines 217-228: the columns the query needs, or the error for a name that
\* is not in the table
resolve_columns(q, t) ==
    IF \E k \in 1..Len(q.columns) : Table_column(t, q.columns[k]) = None
    THEN [res |-> "invalid_argument", selected |-> {}]
    ELSE [res |-> "ok", selected |-> {q.columns[k] : k \in 1..Len(q.columns)}]

\* lines 240-248: the result row for a row index; Fault if a read faults
result_row(t, selected, row_index) ==
    IF \E n \in selected : \/ is_null_faults(t.columns[n], row_index)
                           \/ get_bytes(t.columns[n], row_index) = Fault
    THEN Fault
    ELSE Some([n \in selected |-> get_bytes(t.columns[n], row_index)])

\* execute_row with `count` a counter all calls share
execute_row_shared_count(c, t) ==
    IF c.row_index >= t.row_count THEN [c EXCEPT !.pc = "done", !.res = Some("ok")]
    ELSE
    LET m == evaluate(c.query.predicate, t, c.row_index)
        e == [c EXCEPT !.evals = @ + 1]
        shared == Len(Flatten([x \in DOMAIN calls |-> calls[x].emitted]))
    IN
    IF m = Fault THEN [e EXCEPT !.pc = "done", !.res = Some("panic")]
    ELSE IF ~m[1] THEN [e EXCEPT !.row_index = @ + 1]
    ELSE IF c.row_index < c.query.offset THEN [e EXCEPT !.row_index = @ + 1]
    ELSE
    LET row == result_row(t, c.selected, c.row_index) IN
    IF row = Fault THEN [e EXCEPT !.pc = "done", !.res = Some("panic")]
    ELSE
    LET pushed == [e EXCEPT !.results = Append(@, row[1]),
                            !.emitted = Append(@, c.row_index),
                            !.count = shared + 1]
    IN
    IF c.query.limit /= None /\ pushed.count >= c.query.limit[1]
    THEN [pushed EXCEPT !.pc = "done", !.res = Some("ok")]
    ELSE [pushed EXCEPT !.row_index = @ + 1]

\* one iteration of `for row_index in 0..self.table.row_count()` (lines
\* 231-260), or the end of the loop
execute_row(c, t) ==
    IF c.row_index >= t.row_count THEN [c EXCEPT !.pc = "done", !.res = Some("ok")]
    ELSE
    LET m == evaluate(c.query.predicate, t, c.row_index)
        e == [c EXCEPT !.evals = @ + 1]
    IN
    IF m = Fault THEN [e EXCEPT !.pc = "done", !.res = Some("panic")]
    ELSE IF ~m[1] THEN [e EXCEPT !.row_index = @ + 1]
    ELSE IF c.row_index < c.query.offset THEN [e EXCEPT !.row_index = @ + 1]
    ELSE
    LET row == result_row(t, c.selected, c.row_index) IN
    IF row = Fault THEN [e EXCEPT !.pc = "done", !.res = Some("panic")]
    ELSE
    LET pushed == [e EXCEPT !.results = Append(@, row[1]),
                            !.emitted = Append(@, c.row_index),
                            !.count = @ + 1]
    IN
    IF c.query.limit /= None /\ pushed.count >= c.query.limit[1]
    THEN [pushed EXCEPT !.pc = "done", !.res = Some("ok")]
    ELSE [pushed EXCEPT !.row_index = @ + 1]

\* a thread calls predicate.evaluate(&table, row_index) for a valid row index
EvaluateCall(t, p, i) ==
    /\ table.res = "ok"
    /\ calls[t].pc = "idle"
    /\ i < table.row_count
    /\ calls' = [calls EXCEPT ![t] =
                    [IdleCall EXCEPT !.op = "evaluate", !.pc = "done",
                                     !.query = Query_new(<<>>, p),
                                     !.row_index = i,
                                     !.evals = 1,
                                     !.res = evaluate(p, table, i)]]
    /\ UNCHANGED <<builder, hist, failed, last, phase, file, column, dir, table,
                   fieldlist, schema, index, indexed, mvars, tvars>>

\* a thread calls query.execute(): lines 213-214
ExecuteBegin(t, q) ==
    /\ table.res = "ok"
    /\ calls[t].pc = "idle"
    /\ calls' = [calls EXCEPT ![t] =
                    [IdleCall EXCEPT !.op = "execute", !.pc = "columns", !.query = q]]
    /\ UNCHANGED <<builder, hist, failed, last, phase, file, column, dir, table,
                   fieldlist, schema, index, indexed, mvars, tvars>>

\* lines 217-228
ExecuteColumns(t) ==
    /\ calls[t].pc = "columns"
    /\ LET r == resolve_columns(calls[t].query, table) IN
       calls' = [calls EXCEPT ![t] =
                    IF r.res = "ok"
                    THEN [@ EXCEPT !.pc = "rows", !.selected = r.selected]
                    ELSE [@ EXCEPT !.pc = "done", !.res = Some(r.res)]]
    /\ UNCHANGED <<builder, hist, failed, last, phase, file, column, dir, table,
                   fieldlist, schema, index, indexed, mvars, tvars>>

\* lines 231-262
ExecuteRow(t) ==
    /\ calls[t].pc = "rows"
    /\ calls' = [calls EXCEPT ![t] = execute_row(@, table)]
    /\ UNCHANGED <<builder, hist, failed, last, phase, file, column, dir, table,
                   fieldlist, schema, index, indexed, mvars, tvars>>

-----------------------------------------------------------------------------
(* SpecQuery: a table is opened and one query is executed on it *)

\* the state before Table::open of a directory, with the threads idle
InitQueryOn(dirs, threads) ==
    /\ builder = ColumnBuilder_new(Field_new("column", DT("UInt8"), FALSE), 0)
    /\ hist = <<>>
    /\ failed = FALSE
    /\ last = [op |-> "new", arg |-> None, res |-> "ok"]
    /\ phase = "table"
    /\ file = <<>>
    /\ column = NoColumn
    /\ dir \in dirs
    /\ table = NoTable
    /\ fieldlist = <<>>
    /\ schema = NoSchema
    /\ calls = [t \in threads |-> IdleCall]
    /\ index = [data |-> <<>>]
    /\ indexed = None
    /\ MmapIdle

\* the predicates of the queries
QueryPredicates ==
    {PTrue,
     Compare("age", "Eq", Some(<<1>>)),
     Compare("age", "IsNull", None),
     Compare("email", "Ne", Some(<<98>>))}

\* the queries: QueryBuilder select / filter / limit / offset
Queries ==
    {[columns |-> cs, predicate |-> p, limit |-> l, offset |-> o] :
        cs \in {<<>>, <<"email", "age">>, <<"age", "nope">>},
        p \in QueryPredicates,
        l \in {None} \cup {Some(n) : n \in 0..2},
        o \in 0..MaxQueryRows}

InitQuery == InitQueryOn(QueryDirs(MaxQueryRows), {1})

NextQuery ==
    \/ TableOpen
    \/ \E q \in Queries : ExecuteBegin(1, q)
    \/ ExecuteColumns(1)
    \/ ExecuteRow(1)

SpecQuery == InitQuery /\ [][NextQuery]_vars

\* an execute call that has returned Ok(results)
Returned(c) == c.op = "execute" /\ c.pc = "done" /\ c.res = Some("ok")

\* the rows of 0..row_count-1 the predicate is true of, in ascending order
RECURSIVE MatchesFrom(_, _, _)
MatchesFrom(p, t, i) ==
    IF i >= t.row_count THEN <<>>
    ELSE IF evaluate(p, t, i) = Some(TRUE)
    THEN <<i>> \o MatchesFrom(p, t, i + 1)
    ELSE MatchesFrom(p, t, i + 1)

\* a sequence without its first n elements
Drop(sq, n) == IF n >= Len(sq) THEN <<>> ELSE SubSeq(sq, n + 1, Len(sq))

\* the first n elements of a sequence
Take(sq, n) == IF n >= Len(sq) THEN sq ELSE SubSeq(sq, 1, n)

\* C11: execute with offset N skips the first N rows that match the predicate,
\* counted among the matches in ascending row order, and emits the matches
\* that follow (as many as the limit allows); with N at or above the number
\* of matches the result is empty.
C11_OffsetSkipsMatches ==
    \A t \in DOMAIN calls :
        Returned(calls[t]) =>
            LET c == calls[t]
                rest == Drop(MatchesFrom(c.query.predicate, table, 0), c.query.offset)
            IN /\ c.emitted = Take(rest, Len(c.emitted))
               /\ c.query.limit = None => c.emitted = rest
               /\ Len(c.results) = Len(c.emitted)

\* what the code does with the offset: a matching row is skipped when its row
\* index is below the offset
C11_OffsetSkipsRowIndices ==
    \A t \in DOMAIN calls :
        Returned(calls[t]) =>
            \A k \in 1..Len(calls[t].emitted) :
                calls[t].emitted[k] >= calls[t].query.offset

\* C12: execute with limit L returns at most L rows, for every L >= 0; with
\* limit 0 it returns no row.
C12_LimitBoundsResult ==
    \A t \in DOMAIN calls :
        (Returned(calls[t]) /\ calls[t].query.limit /= None) =>
            Len(calls[t].results) <= calls[t].query.limit[1]

\* what the code does with the limit: at most L rows for L >= 1, at most one
\* row for L = 0
C12_LimitOfAtLeastOne ==
    \A t \in DOMAIN calls :
        (Returned(calls[t]) /\ calls[t].query.limit /= None) =>
            /\ calls[t].query.limit[1] >= 1 =>
                  Len(calls[t].results) <= calls[t].query.limit[1]
            /\ Len(calls[t].results) <= 1 \/ calls[t].query.limit[1] >= 1

\* a selected column name of the call's query is not in the table
SelectsMissingColumn(c) ==
    \E k \in 1..Len(c.query.columns) : c.query.columns[k] \notin DOMAIN table.columns

\* C13: if a selected column name does not exist in the table, execute
\* returns an invalid-argument error before it evaluates the predicate on any
\* row, and returns no result rows.
C13_MissingColumnRejected ==
    \A t \in DOMAIN calls :
        (calls[t].op = "execute" /\ calls[t].pc \in {"rows", "done"}
            /\ SelectsMissingColumn(calls[t]))
        => /\ calls[t].pc = "done"
           /\ calls[t].res = Some("invalid_argument")
           /\ calls[t].evals = 0
           /\ calls[t].results = <<>>

\* a query that selects a missing column, on a table with a row its predicate
\* is true of, has returned
C13_Witness ==
    \E t \in DOMAIN calls :
        /\ calls[t].op = "execute"
        /\ calls[t].pc = "done"
        /\ SelectsMissingColumn(calls[t])
        /\ table.row_count > 0
        /\ MatchesFrom(calls[t].query.predicate, table, 0) /= <<>>

-----------------------------------------------------------------------------
(* SpecEval: a table is opened and one predicate is evaluated on one row *)

Operators ==
    {"Eq", "Ne", "Lt", "Le", "Gt", "Ge", "IsNull", "IsNotNull",
     "Like", "NotLike", "In", "NotIn"}

\* the comparisons evaluated: on a fixed-width column, on a string column and
\* on a column the table does not have
Comparisons ==
    {Compare(c, op, v) :
        c \in {"age", "email", "nope"},
        op \in Operators,
        v \in {None, Some(<<1>>), Some(<<97>>), Some(<<1, 0>>)}}

\* the predicates the trees are built from
TreeLeaves ==
    {PTrue, PFalse, Compare("age", "Eq", Some(<<1>>)), Compare("email", "Ge", Some(<<97>>))}

\* And and Or of up to two leaves, Not of a leaf
Trees1 ==
    {And(ps) : ps \in SeqsUpTo(TreeLeaves, 2)}
    \cup {Or(ps) : ps \in SeqsUpTo(TreeLeaves, 2)}
    \cup {Not(q) : q \in TreeLeaves}

\* trees of depth two
Trees2 ==
    {Not(q) : q \in Trees1}
    \cup {And(<<q, l>>) : q \in Trees1, l \in {PTrue, PFalse}}
    \cup {Or(<<l, q>>) : q \in Trees1, l \in {PTrue, PFalse}}

EvalPredicates == Comparisons \cup TreeLeaves \cup Trees1 \cup Trees2

InitEval == InitQueryOn(QueryDirs(MaxQueryRows), {1})

NextEval ==
    \/ TableOpen
    \/ \E p \in EvalPredicates, i \in 0..(MaxQueryRows - 1) : EvaluateCall(1, p, i)

SpecEval == InitEval /\ [][NextEval]_vars

\* an evaluate call that is over: it returned, or a read it made faulted
Evaluated(c) == c.op = "evaluate" /\ c.pc = "done"

\* the order of two byte strings by their first difference, a proper prefix
\* being smaller: -1, 0 or 1
RECURSIVE ByteOrder(_, _)
ByteOrder(a, b) ==
    IF a = <<>> /\ b = <<>> THEN 0
    ELSE IF a = <<>> THEN -1
    ELSE IF b = <<>> THEN 1
    ELSE IF Head(a) < Head(b) THEN -1
    ELSE IF Head(a) > Head(b) THEN 1
    ELSE ByteOrder(Tail(a), Tail(b))

\* what an ordering operator makes of an order
Holds(op, o) ==
    CASE op = "Eq" -> o = 0
      [] op = "Ne" -> o /= 0
      [] op = "Lt" -> o < 0
      [] op = "Le" -> o <= 0
      [] op = "Gt" -> o > 0
      [] op = "Ge" -> o >= 0

\* C14 for one comparison p evaluated on row i with result r
ComparisonAsClaimed(p, i, r) ==
    IF p.column \notin DOMAIN table.columns THEN r = Some(FALSE)
    ELSE
    LET col == table.columns[p.column] IN
    IF p.op = "IsNull" THEN r = Some(is_null(col, i))
    ELSE IF p.op = "IsNotNull" THEN r = Some(~is_null(col, i))
    ELSE IF is_null(col, i) THEN r = Some(FALSE)
    ELSE (p.op \in {"Eq", "Ne", "Lt", "Le", "Gt", "Ge"} /\ p.value /= None) =>
            /\ get_bytes(col, i) \notin {Fault, None}
            /\ r = Some(Holds(p.op, ByteOrder(get_bytes(col, i)[1], p.value[1])))

\* C14: for a comparison evaluated on row i: a column that does not exist
\* gives false; IsNull gives is_null(i) and IsNotNull its negation; any other
\* operator gives false on a null row; otherwise Eq, Ne, Lt, Le, Gt, Ge give
\* the byte-lexicographic comparison of the row's bytes with the literal.
C14_Comparison ==
    \A t \in DOMAIN calls :
        (Evaluated(calls[t]) /\ calls[t].query.predicate.tag = "Compare") =>
            ComparisonAsClaimed(calls[t].query.predicate, calls[t].row_index, calls[t].res)

\* the read of the row of a comparison's column succeeds: get_bytes returns
Readable(p, i) ==
    p.column \in DOMAIN table.columns =>
        /\ ~is_null_faults(table.columns[p.column], i)
        /\ get_bytes(table.columns[p.column], i) /= Fault

\* C14 on the rows get_bytes can read: there the comparison is as claimed,
\* and elsewhere only an ordering or pattern operator on a row that is not
\* null has no result
C14_ComparisonOfReadableRows ==
    \A t \in DOMAIN calls :
        (Evaluated(calls[t]) /\ calls[t].query.predicate.tag = "Compare") =>
            LET p == calls[t].query.predicate
                i == calls[t].row_index
            IN IF Readable(p, i)
               THEN calls[t].res /= Fault /\ ComparisonAsClaimed(p, i, calls[t].res)
               ELSE calls[t].res = Fault
                       => /\ p.op \notin {"IsNull", "IsNotNull"}
                          /\ ~is_null(table.columns[p.column], i)

\* an ordering comparison of a row that is not null has returned true, and its
\* literal is not the row's bytes
C14_Witness ==
    \E t \in DOMAIN calls :
        /\ Evaluated(calls[t])
        /\ calls[t].query.predicate.tag = "Compare"
        /\ calls[t].query.predicate.op \in {"Lt", "Gt"}
        /\ calls[t].res = Some(TRUE)

\* the boolean reference semantics of a predicate on row i of the table: a
\* comparison is true when its evaluation is
RECURSIVE Truth(_, _)
Truth(p, i) ==
    CASE p.tag = "Compare" -> evaluate_compare(p, table, i) = Some(TRUE)
      [] p.tag = "And" -> \A k \in 1..Len(p.args) : Truth(p.args[k], i)
      [] p.tag = "Or" -> \E k \in 1..Len(p.args) : Truth(p.args[k], i)
      [] p.tag = "Not" -> ~Truth(p.args[1], i)
      [] p.tag = "True" -> TRUE
      [] p.tag = "False" -> FALSE

\* every comparison of the tree reads a row get_bytes can read
RECURSIVE LeavesReadable(_, _)
LeavesReadable(p, i) ==
    IF p.tag = "Compare" THEN Readable(p, i)
    ELSE \A k \in 1..Len(p.args) : LeavesReadable(p.args[k], i)

\* C15: for every predicate tree evaluate computes the boolean reference
\* semantics: And is true iff every argument is (true of none), Or iff some
\* argument is (false of none), Not negates, True is true, False is false,
\* whatever the order in which the loops stop.
C15_TreeSemantics ==
    \A t \in DOMAIN calls :
        (Evaluated(calls[t]) /\ calls[t].query.predicate.tag /= "Compare") =>
            calls[t].res = Some(Truth(calls[t].query.predicate, calls[t].row_index))

\* C15 for the trees whose comparisons all read rows get_bytes can read
C15_TreesOfReadableRows ==
    \A t \in DOMAIN calls :
        (Evaluated(calls[t]) /\ calls[t].query.predicate.tag /= "Compare"
            /\ LeavesReadable(calls[t].query.predicate, calls[t].row_index))
        => calls[t].res = Some(Truth(calls[t].query.predicate, calls[t].row_index))

-----------------------------------------------------------------------------
(* SpecConc: two threads run evaluate and execute calls on one table, their *)
(* steps interleaved                                                        *)

ConcThreads == {1, 2}

ConcPredicates == {PTrue, Compare("email", "Ne", Some(<<98>>))}

ConcQueries ==
    {[columns |-> <<"email", "age">>, predicate |-> p, limit |-> l, offset |-> o] :
        p \in ConcPredicates, l \in {None, Some(2)}, o \in {0, 1}}

InitConc == InitQueryOn(QueryDirs(ConcRows), ConcThreads)

NextConc ==
    \/ TableOpen
    \/ \E t \in ConcThreads :
          \/ \E p \in ConcPredicates, i \in 0..(ConcRows - 1) : EvaluateCall(t, p, i)
          \/ \E q \in ConcQueries : ExecuteBegin(t, q)
          \/ ExecuteColumns(t)
          \/ ExecuteRow(t)

SpecConc == InitConc /\ [][NextConc]_vars

\* an execute call run to its end with no other call in between
RECURSIVE RunRows(_)
RunRows(c) == IF c.pc = "done" THEN c ELSE RunRows(execute_row(c, table))

ExecuteAlone(q) ==
    LET c == [IdleCall EXCEPT !.op = "execute", !.pc = "columns", !.query = q]
        r == resolve_columns(q, table)
    IN IF r.res = "ok"
       THEN RunRows([c EXCEPT !.pc = "rows", !.selected = r.selected])
       ELSE [c EXCEPT !.pc = "done", !.res = Some(r.res)]

\* a call that is over ended as it ends when run alone
AsAlone(c) ==
    c.pc = "done" =>
        IF c.op = "evaluate"
        THEN c.res = evaluate(c.query.predicate, table, c.row_index)
        ELSE c = ExecuteAlone(c.query)

C16_FaultingCallEnds ==
    \E t \in DOMAIN calls :
        \/ Evaluated(calls[t]) /\ calls[t].res = Fault
        \/ calls[t].op = "execute" /\ calls[t].pc = "done" /\ calls[t].res = Some("panic")

-----------------------------------------------------------------------------
(* Index (columnar/index.rs).  data maps a key, the bytes of a value, to the *)
(* row ids pushed for it, in the order pushed.                               *)

\* Index::new
Index_new == [data |-> <<>>]

\* the loop of build from row i on (lines 61-66); Fault if get_bytes faults
RECURSIVE build_rows(_, _, _)
build_rows(data, c, i) ==
    IF i >= row_count(c) THEN [res |-> "ok", data |-> data]
    ELSE LET value == get_bytes(c, i) IN
         IF value = Fault THEN [res |-> "panic", data |-> data]
         ELSE IF value = None THEN build_rows(data, c, i + 1)
         ELSE build_rows(MapInsert(data, value[1],
                                   IF value[1] \in DOMAIN data
                                   THEN Append(data[value[1]], i) ELSE <<i>>),
                         c, i + 1)

\* build without its `self.data.clear()`
Index_build_keeping(idx, c) ==
    LET r == build_rows(idx.data, c, 0) IN [res |-> r.res, index |-> [data |-> r.data]]

\* Index::build
Index_build(idx, c) ==
    LET r == build_rows(<<>>, c, 0) IN [res |-> r.res, index |-> [data |-> r.data]]

\* Index::lookup
lookup(idx, value) ==
    IF value \in DOMAIN idx.data THEN Some(idx.data[value]) ELSE None

\* vec.sort() of the elements of a set of numbers
RECURSIVE SortedSeq(_)
SortedSeq(S) ==
    IF S = {} THEN <<>>
    ELSE LET m == CHOOSE x \in S : \A y \in S : x <= y
         IN <<m>> \o SortedSeq(S \ {m})

\* lookup_range with the end bound left out of the range
lookup_range_exclusive(idx, start, end) ==
    SortedSeq(UNION {{idx.data[key][k] : k \in 1..Len(idx.data[key])} :
                        key \in {x \in DOMAIN idx.data :
                                    ~slice_lt(x, start) /\ slice_lt(x, end)}})

\* Index::lookup_range
lookup_range(idx, start, end) ==
    SortedSeq(UNION {{idx.data[key][k] : k \in 1..Len(idx.data[key])} :
                        key \in {x \in DOMAIN idx.data :
                                    ~slice_lt(x, start) /\ ~slice_lt(end, x)}})

\* the columns an index is built from
IndexedColumns == {"id", "email", "active"}

\* the values looked up
LookupValues == {<<1>>, <<97>>, to_le_bytes(1, 8), to_le_bytes(2, 8)}

\* the bounds of the ranges looked up
RangeBounds == {<<1>>, to_le_bytes(1, 8), to_le_bytes(2, 8)}

\* index.build(table.column(name)): the history of builds is kept in indexed
IndexBuild(name) ==
    /\ table.res = "ok"
    /\ phase = "table_opened"
    /\ Len(indexed) < MaxBuilds
    /\ name \in DOMAIN table.columns
    /\ LET r == Index_build(index, table.columns[name]) IN
          /\ index' = r.index
          /\ indexed' = IF r.res = "ok" THEN Append(indexed, name) ELSE indexed
          /\ phase' = IF r.res = "ok" THEN phase ELSE "panicked"
          /\ last' = [op |-> "build", arg |-> None, res |-> r.res]
    /\ UNCHANGED <<builder, hist, failed, file, column, dir, table, fieldlist, schema,
                   calls, mvars, tvars>>

\* index.lookup(value)
Lookup(value) ==
    /\ phase = "table_opened"
    /\ last' = [op |-> "lookup", arg |-> Some(<<value>>), res |-> Some(lookup(index, value))]
    /\ UNCHANGED <<builder, hist, failed, phase, file, column, dir, table, fieldlist, schema,
                   qvars, mvars, tvars>>

\* index.lookup_range(start, end)
LookupRange(start, end) ==
    /\ phase = "table_opened"
    /\ last' = [op |-> "lookup_range", arg |-> Some(<<start, end>>),
                res |-> Some(lookup_range(index, start, end))]
    /\ UNCHANGED <<builder, hist, failed, phase, file, column, dir, table, fieldlist, schema,
                   qvars, mvars, tvars>>

InitIndex == InitQueryOn(QueryDirs(MaxIndexRows), {1})

NextIndex ==
    \/ TableOpen
    \/ \E name \in IndexedColumns : IndexBuild(name)
    \/ \E v \in LookupValues : Lookup(v)
    \/ \E s, e \in RangeBounds : LookupRange(s, e)

SpecIndex == InitIndex /\ [][NextIndex]_vars

\* the column of the most recent build that returned
BuiltColumn == table.columns[indexed[Len(indexed)]]

\* the rows of the built column that are not null and whose bytes satisfy Q
RowsWhere(Q(_)) ==
    {i \in 0..(row_count(BuiltColumn) - 1) :
        /\ ~is_null(BuiltColumn, i)
        /\ get_bytes(BuiltColumn, i) \notin {None, Fault}
        /\ Q(get_bytes(BuiltColumn, i)[1])}

\* C17: after any sequence of builds the index reflects only the column built
\* last: lookup(v) returns exactly the ids, ascending, of that column's rows
\* that are not null and whose bytes equal v, and nothing when there is no
\* such row; entries of earlier builds are gone.
C17_LookupOfLastBuild ==
    (phase = "table_opened" /\ indexed /= <<>>) =>
        /\ \A v \in LookupValues \cup DOMAIN index.data :
              LET Eq(k) == k = v
                  rows == SortedSeq(RowsWhere(Eq))
              IN lookup(index, v) = IF rows = <<>> THEN None ELSE Some(rows)
        /\ last.op = "lookup" =>
              LET Eq(k) == k = last.arg[1][1]
                  rows == SortedSeq(RowsWhere(Eq))
              IN last.res[1] = IF rows = <<>> THEN None ELSE Some(rows)

\* a lookup after a second build has found rows, for a value the column built
\* first does not have
C17_Witness ==
    /\ phase = "table_opened"
    /\ Len(indexed) = 2
    /\ indexed[1] /= indexed[2]
    /\ last.op = "lookup"
    /\ last.res[1] /= None
    /\ Len(last.res[1][1]) >= 2

\* C18: lookup_range(start, end) returns exactly the ids of the indexed rows
\* that are not null and whose bytes k satisfy start <= k <= end in the
\* byte-lexicographic order, strictly ascending; the empty list when
\* start > end.
C18_LookupRange ==
    (phase = "table_opened" /\ last.op = "lookup_range") =>
        LET start == last.arg[1][1]
            end == last.arg[1][2]
            In(k) == ByteOrder(start, k) <= 0 /\ ByteOrder(k, end) <= 0
            rows == IF indexed = <<>> THEN {} ELSE RowsWhere(In)
            got == last.res[1]
        IN /\ {got[k] : k \in 1..Len(got)} = rows
           /\ \A k \in 1..(Len(got) - 1) : got[k] < got[k + 1]
           /\ ByteOrder(start, end) > 0 => got = <<>>

\* a range lookup has returned rows of two keys, its end bound being one
C18_Witness ==
    /\ phase = "table_opened"
    /\ indexed /= <<>>
    /\ last.op = "lookup_range"
    /\ Len(last.res[1]) >= 2
    /\ last.arg[1][2] \in DOMAIN index.data
    /\ Cardinality({k \in DOMAIN index.data :
                        ByteOrder(last.arg[1][1], k) <= 0 /\ ByteOrder(k, last.arg[1][2]) <= 0}) >= 2

-----------------------------------------------------------------------------
(* The mapping facade (mmap.rs) over the Linux platform layer                *)
(* (platform/linux.rs).  The two process-wide counters are atomics updated   *)
(* one at a time; they are modelled as integers, a value below 0 standing    *)
(* for a usize that has wrapped.                                             *)

\* MmapOptions::default and the setters the model uses
MmapOptions_new == [offset |-> 0, len |-> None, writable |-> FALSE, alignment |-> None]
MmapOptions_offset(o, offset) == [o EXCEPT !.offset = offset]
MmapOptions_len(o, len) == [o EXCEPT !.len = Some(len)]
MmapOptions_alignment(o, alignment) == [o EXCEPT !.alignment = Some(alignment)]

\* no MmapRaw
NoRaw == [ptr |-> None, len |-> 0]

\* the mmap syscall: a length of 0 is EINVAL, any other call succeeds or not
\* as the kernel decides
mmap_ok(length, kernel_ok) == length > 0 /\ kernel_ok

\* platform::map_file (linux.rs lines 80-157): the result, the MmapRaw and
\* the number of mmap calls issued
platform_map_file(offset, len, alignment, kernel_ok) ==
    LET page_size == PageSize
        aligned_offset == offset - (offset % page_size)
        offset_delta == offset - aligned_offset
        aligned_len == len + offset_delta
        map_len == IF alignment /= None /\ alignment[1] > page_size
                   THEN aligned_len + (alignment[1] - 1) ELSE aligned_len
    IN IF mmap_ok(map_len, kernel_ok)
       THEN [res |-> "ok", raw |-> [ptr |-> Some(offset_delta), len |-> len], issued |-> 1]
       ELSE [res |-> "io", raw |-> NoRaw, issued |-> 1]

\* platform::map_anon returning the length with the alignment slack
platform_map_anon_with_slack(len, alignment, kernel_ok) ==
    LET aligned_len == IF alignment /= None /\ alignment[1] > PageSize
                       THEN len + (alignment[1] - 1) ELSE len
    IN IF mmap_ok(aligned_len, kernel_ok)
       THEN [res |-> "ok", raw |-> [ptr |-> Some(0), len |-> aligned_len], issued |-> 1]
       ELSE [res |-> "io", raw |-> NoRaw, issued |-> 1]

\* platform::map_anon (linux.rs lines 210-282)
platform_map_anon(len, alignment, kernel_ok) ==
    LET map_len == IF alignment /= None /\ alignment[1] > PageSize
                   THEN len + (alignment[1] - 1) ELSE len
        \* line 254 resets aligned_len to len after the slack is unmapped
        aligned_len == len
    IN IF mmap_ok(map_len, kernel_ok)
       THEN [res |-> "ok", raw |-> [ptr |-> Some(0), len |-> aligned_len], issued |-> 1]
       ELSE [res |-> "io", raw |-> NoRaw, issued |-> 1]

\* a thread that runs no call
IdleMapCall ==
    [op |-> "none", pc |-> "idle", options |-> MmapOptions_new, file_size |-> 0,
     len |-> 0,       \* the local `len` of map_impl / map_anon_impl
     raw |-> NoRaw,   \* the MmapRaw the platform returned, or the one dropped
     res |-> "none",
     issued |-> 0,    \* mmap calls this call has issued
     added |-> 0,     \* counter updates this call has made
     n |-> 0]         \* calls this thread has made so far

RECURSIVE CallsMade(_)
CallsMade(ts) ==
    IF ts = {} THEN 0
    ELSE LET t == CHOOSE x \in ts : TRUE
         IN mapcalls[t].n + CallsMade(ts \ {t})

CanCall(t) ==
    /\ mapcalls[t].pc \in {"idle", "done"}
    /\ CallsMade(DOMAIN mapcalls) < MaxMapCalls

\* options.map(&file) or options.map_mut(&file) on a file of the size
MapBegin(t, op, options, file_size) ==
    /\ CanCall(t)
    /\ mapcalls' = [mapcalls EXCEPT ![t] =
           [IdleMapCall EXCEPT !.op = op, !.pc = "validate",
                               !.options = IF op = "map_mut"
                                           THEN [options EXCEPT !.writable = TRUE]
                                           ELSE options,
                               !.file_size = file_size,
                               !.n = mapcalls[t].n + 1]]
    /\ UNCHANGED <<builder, hist, failed, last, phase, file, column, dir, table,
                   fieldlist, schema, qvars, tvars, space,
                   TOTAL_MAPPED_MEMORY, ACTIVE_MAPPINGS, views, syscalls>>

\* options.map_anon(len): options.len = Some(len)
MapAnonBegin(t, options, len) ==
    /\ CanCall(t)
    /\ mapcalls' = [mapcalls EXCEPT ![t] =
           [IdleMapCall EXCEPT !.op = "map_anon", !.pc = "validate",
                               !.options = MmapOptions_len(options, len),
                               !.n = mapcalls[t].n + 1]]
    /\ UNCHANGED <<builder, hist, failed, last, phase, file, column, dir, table,
                   fieldlist, schema, qvars, tvars, space,
                   TOTAL_MAPPED_MEMORY, ACTIVE_MAPPINGS, views, syscalls>>

\* map_impl lines 215-228, map_anon_impl lines 260-264: what the call does
\* before the platform call
validate(c) ==
    IF c.options.len /= None /\ c.options.len[1] = 0
    THEN [c EXCEPT !.pc = "done", !.res = "zero_sized_mapping"]
    ELSE [c EXCEPT !.pc = "platform",
                   !.len = IF c.options.len /= None THEN c.options.len[1]
                           ELSE c.file_size]

MapValidate(t) ==
    /\ mapcalls[t].pc = "validate"
    /\ mapcalls' = [mapcalls EXCEPT ![t] = validate(@)]
    /\ UNCHANGED <<builder, hist, failed, last, phase, file, column, dir, table,
                   fieldlist, schema, qvars, tvars, space,
                   TOTAL_MAPPED_MEMORY, ACTIVE_MAPPINGS, views, syscalls>>

\* map_impl lines 231-244, map_anon_impl lines 267-277: the platform call
MapPlatform(t) ==
    /\ mapcalls[t].pc = "platform"
    /\ \E kernel_ok \in BOOLEAN :
          LET c == mapcalls[t]
              r == IF c.op = "map_anon"
                   THEN platform_map_anon(c.len, c.options.alignment, kernel_ok)
                   ELSE platform_map_file(c.options.offset, c.len,
                                          c.options.alignment, kernel_ok)
          IN /\ mapcalls' = [mapcalls EXCEPT ![t] =
                    IF r.res = "ok"
                    THEN [@ EXCEPT !.pc = "add_total", !.raw = r.raw, !.issued = @ + r.issued]
                    ELSE [@ EXCEPT !.pc = "done", !.res = r.res, !.issued = @ + r.issued]]
             /\ syscalls' = syscalls + r.issued
    /\ UNCHANGED <<builder, hist, failed, last, phase, file, column, dir, table,
                   fieldlist, schema, qvars, tvars, space,
                   TOTAL_MAPPED_MEMORY, ACTIVE_MAPPINGS, views>>

\* TOTAL_MAPPED_MEMORY.fetch_add(len, Relaxed)
MapAddTotal(t) ==
    /\ mapcalls[t].pc = "add_total"
    /\ TOTAL_MAPPED_MEMORY' = TOTAL_MAPPED_MEMORY + mapcalls[t].len
    /\ mapcalls' = [mapcalls EXCEPT ![t] = [@ EXCEPT !.pc = "add_active", !.added = @ + 1]]
    /\ UNCHANGED <<builder, hist, failed, last, phase, file, column, dir, table,
                   fieldlist, schema, qvars, tvars, space, ACTIVE_MAPPINGS, views, syscalls>>

\* ACTIVE_MAPPINGS.fetch_add(1, Relaxed), then Ok(raw): the caller holds the view
MapAddActive(t) ==
    /\ mapcalls[t].pc = "add_active"
    /\ ACTIVE_MAPPINGS' = ACTIVE_MAPPINGS + 1
    /\ views' = views \cup {[id |-> <<t, mapcalls[t].n>>, raw |-> mapcalls[t].raw]}
    /\ mapcalls' = [mapcalls EXCEPT ![t] =
                       [@ EXCEPT !.pc = "done", !.res = "ok", !.added = @ + 1]]
    /\ UNCHANGED <<builder, hist, failed, last, phase, file, column, dir, table,
                   fieldlist, schema, qvars, tvars, space, TOTAL_MAPPED_MEMORY, syscalls>>

\* a thread drops a view it holds: Drop for MmapRaw starts
DropBegin(t, v) ==
    /\ CanCall(t)
    /\ v \in views
    /\ views' = views \ {v}
    /\ mapcalls' = [mapcalls EXCEPT ![t] =
           [IdleMapCall EXCEPT !.op = "drop",
                               !.pc = IF v.raw.ptr = None THEN "done" ELSE "sub_active",
                               !.raw = v.raw,
                               !.n = mapcalls[t].n + 1]]
    /\ UNCHANGED <<builder, hist, failed, last, phase, file, column, dir, table,
                   fieldlist, schema, qvars, tvars, space,
                   TOTAL_MAPPED_MEMORY, ACTIVE_MAPPINGS, syscalls>>

\* ACTIVE_MAPPINGS.fetch_sub(1, Relaxed)
DropSubActive(t) ==
    /\ mapcalls[t].pc = "sub_active"
    /\ ACTIVE_MAPPINGS' = ACTIVE_MAPPINGS - 1
    /\ mapcalls' = [mapcalls EXCEPT ![t] = [@ EXCEPT !.pc = "sub_total"]]
    /\ UNCHANGED <<builder, hist, failed, last, phase, file, column, dir, table,
                   fieldlist, schema, qvars, tvars, space, TOTAL_MAPPED_MEMORY, views, syscalls>>

\* TOTAL_MAPPED_MEMORY.fetch_sub(self.len, Relaxed), then platform::unmap
DropSubTotal(t) ==
    /\ mapcalls[t].pc = "sub_total"
    /\ TOTAL_MAPPED_MEMORY' = TOTAL_MAPPED_MEMORY - mapcalls[t].raw.len
    /\ mapcalls' = [mapcalls EXCEPT ![t] = [@ EXCEPT !.pc = "done", !.res = "ok"]]
    /\ UNCHANGED <<builder, hist, failed, last, phase, file, column, dir, table,
                   fieldlist, schema, qvars, tvars, space, ACTIVE_MAPPINGS, views, syscalls>>

\* the threads that map and drop
MapThreads == 1 .. 2

\* the files mapped, by size, and the options they are mapped with
FileMapInputs ==
    {[options |-> MmapOptions_new, file_size |-> 0],
     [options |-> MmapOptions_new, file_size |-> 1],
     [options |-> MmapOptions_len(MmapOptions_new, 0), file_size |-> 1],
     [options |-> MmapOptions_alignment(MmapOptions_new, 2 * PageSize), file_size |-> 0],
     [options |-> MmapOptions_offset(MmapOptions_new, 1), file_size |-> 0]}

\* the files mapped writable
MutMapInputs ==
    {[options |-> MmapOptions_new, file_size |-> 1]}

\* the anonymous mappings asked for
AnonMapInputs ==
    {[options |-> MmapOptions_new, len |-> 0],
     [options |-> MmapOptions_alignment(MmapOptions_new, 2 * PageSize), len |-> 2]}

InitMmap ==
    /\ builder = ColumnBuilder_new(Field_new("column", DT("UInt8"), FALSE), 0)
    /\ hist = <<>>
    /\ failed = FALSE
    /\ last = [op |-> "new", arg |-> None, res |-> "ok"]
    /\ phase = "mapping"
    /\ file = <<>>
    /\ column = NoColumn
    /\ dir = <<>>
    /\ table = NoTable
    /\ fieldlist = <<>>
    /\ schema = NoSchema
    /\ QueryIdle
    /\ TOTAL_MAPPED_MEMORY = 0
    /\ ACTIVE_MAPPINGS = 0
    /\ views = {}
    /\ mapcalls = [t \in MapThreads |-> IdleMapCall]
    /\ syscalls = 0
    /\ space = <<>>
    /\ tbuilder = <<>>

NextMmap ==
    \E t \in MapThreads :
        \/ \E i \in FileMapInputs : MapBegin(t, "map", i.options, i.file_size)
        \/ \E i \in MutMapInputs : MapBegin(t, "map_mut", i.options, i.file_size)
        \/ \E i \in AnonMapInputs : MapAnonBegin(t, i.options, i.len)
        \/ MapValidate(t)
        \/ MapPlatform(t)
        \/ MapAddTotal(t)
        \/ MapAddActive(t)
        \/ \E v \in views : DropBegin(t, v)
        \/ DropSubActive(t)
        \/ DropSubTotal(t)

SpecMmap == InitMmap /\ [][NextMmap]_vars

\* a mapping call, as opposed to a drop
IsMapCall(c) == c.op \in {"map", "map_mut", "map_anon"}

\* the call's effective length is zero: an explicit length of 0, or no
\* explicit length on a file of size 0
ZeroEffectiveLength(c) ==
    /\ IsMapCall(c)
    /\ \/ c.options.len = Some(0)
       \/ c.options.len = None /\ c.file_size = 0

\* C19: a mapping call of effective length zero issues no mapping syscall,
\* leaves both counters alone and ends with the zero-sized-mapping error.
C19_ZeroLengthRejected ==
    \A t \in DOMAIN mapcalls :
        ZeroEffectiveLength(mapcalls[t]) =>
            /\ mapcalls[t].issued = 0
            /\ mapcalls[t].added = 0
            /\ mapcalls[t].pc = "done" => mapcalls[t].res = "zero_sized_mapping"

\* What the code does keep of C19: an explicit length of 0 is rejected with
\* the zero-sized-mapping error before any syscall and any counter update.
C19_ExplicitZeroRejected ==
    \A t \in DOMAIN mapcalls :
        (IsMapCall(mapcalls[t]) /\ mapcalls[t].options.len = Some(0)) =>
            /\ mapcalls[t].issued = 0
            /\ mapcalls[t].added = 0
            /\ mapcalls[t].pc = "done" => mapcalls[t].res = "zero_sized_mapping"

\* no mapping call and no drop is in progress
Quiescent == \A t \in DOMAIN mapcalls : mapcalls[t].pc \in {"idle", "done"}

RECURSIVE SumOfLengths(_)
SumOfLengths(vs) ==
    IF vs = {} THEN 0
    ELSE LET v == CHOOSE x \in vs : TRUE
         IN v.raw.len + SumOfLengths(vs \ {v})

\* C20: at every quiescent point ACTIVE_MAPPINGS is the number of live views
\* and TOTAL_MAPPED_MEMORY the sum of their lengths; a mapping call that
\* failed has updated no counter; neither counter ever goes below zero.
C20_CountersMatchViews ==
    /\ Quiescent =>
          /\ ACTIVE_MAPPINGS = Cardinality(views)
          /\ TOTAL_MAPPED_MEMORY = SumOfLengths(views)
    /\ \A t \in DOMAIN mapcalls :
          (IsMapCall(mapcalls[t]) /\ mapcalls[t].res \notin {"none", "ok"}) =>
              mapcalls[t].added = 0
    /\ ACTIVE_MAPPINGS >= 0
    /\ TOTAL_MAPPED_MEMORY >= 0

\* a quiescent point with a live view, after one thread's mapping call failed
\* in the kernel and the other dropped a view
C20_Witness ==
    /\ phase = "mapping"
    /\ Quiescent
    /\ views /= {}
    /\ TOTAL_MAPPED_MEMORY > 0
    /\ \E t \in DOMAIN mapcalls : mapcalls[t].op = "drop" /\ mapcalls[t].raw.len > 0
    /\ \E t \in DOMAIN mapcalls : IsMapCall(mapcalls[t]) /\ mapcalls[t].res = "io"
                                  /\ mapcalls[t].len > 0

-----------------------------------------------------------------------------
(* The mappings in the address space (platform/linux.rs over mmap and        *)
(* munmap).  The address space is a function from the numbers of the mapped  *)
(* pages to what backs each: page p covers the addresses                     *)
(* p * PageSize .. (p + 1) * PageSize - 1.  A file is known by its size; its *)
(* byte at position q is named by q, so that a read through a view tells     *)
(* which byte of the file it reached.                                        *)

\* the pages that hold an address of [addr, addr + length)
PagesOf(addr, length) ==
    IF length <= 0 THEN {}
    ELSE (addr \div PageSize) .. ((addr + length - 1) \div PageSize)

\* the addresses at which the kernel can place a new mapping of the length
FreeAddrs(length) ==
    {p * PageSize : p \in {q \in 1 .. AddrPages :
                             PagesOf(q * PageSize, length) \subseteq
                                 ((1 .. AddrPages) \ DOMAIN space)}}

\* mmap(NULL, length, prot, flags, fd, file_offset) placing the mapping at
\* addr: the address space after it.  backing is "file" or "anon".
mmap(sp, addr, length, backing, file_offset) ==
    LET new == PagesOf(addr, length)
    IN [p \in DOMAIN sp \cup new |->
           IF p \in new
           THEN [kind |-> backing,
                 fpage |-> (file_offset \div PageSize) + (p - (addr \div PageSize))]
           ELSE sp[p]]

\* munmap(addr, length): EINVAL for an address that is not page-aligned or a
\* length of 0, else every page of the range is unmapped
munmap(sp, addr, length) ==
    IF addr % PageSize /= 0 \/ length <= 0
    THEN [res |-> "EINVAL", space |-> sp]
    ELSE [res |-> "ok",
          space |-> [p \in DOMAIN sp \ PagesOf(addr, length) |-> sp[p]]]

\* x & !m on machine words
RECURSIVE AndNot(_, _)
AndNot(x, m) ==
    IF x = 0 THEN 0
    ELSE (IF x % 2 = 1 /\ m % 2 = 0 THEN 1 ELSE 0) + 2 * AndNot(x \div 2, m \div 2)

\* the over-allocation of map_file and map_anon for an alignment above the
\* page size (linux.rs lines 89-127 and 214-255): mmap of length + align - 1
\* at addr, then munmap of the prefix and of the suffix
map_aligned(sp, addr, length, align, backing, file_offset) ==
    LET extra == align - 1
        map_len == length + extra
        sp1 == mmap(sp, addr, map_len, backing, file_offset)
        addr_value == addr
        aligned_value == AndNot(addr_value + extra, align - 1)
        prefix_size == aligned_value - addr_value
        sp2 == IF prefix_size > 0 THEN munmap(sp1, addr, prefix_size).space ELSE sp1
        suffix_size == extra - prefix_size
        sp3 == IF suffix_size > 0
               THEN munmap(sp2, addr + prefix_size + length, suffix_size).space
               ELSE sp2
    IN IF prefix_size < 0 \/ suffix_size < 0
       THEN \* the subtraction overflows: a panic, or a wrapped length
            [res |-> "overflow", addr |-> 0, space |-> sp1,
             created |-> PagesOf(addr, map_len)]
       ELSE [res |-> "ok", addr |-> aligned_value, space |-> sp3,
             created |-> PagesOf(addr, map_len)]

\* platform::map_file (linux.rs lines 28-157) on a file, the kernel placing
\* the mapping at addr, or refusing it when addr is None
map_file(sp, offset, len, alignment, addr) ==
    LET page_size == PageSize
        aligned_offset == AndNot(offset, page_size - 1)
        offset_delta == offset - aligned_offset
        aligned_len == len + offset_delta
        custom == alignment /= None /\ alignment[1] > page_size
    IN IF addr = None
       THEN [res |-> "io", raw |-> NoRaw, space |-> sp, created |-> {}]
       ELSE IF custom
       THEN LET a == map_aligned(sp, addr[1], aligned_len, alignment[1],
                                 "file", aligned_offset)
            IN [res |-> a.res,
                raw |-> IF a.res = "ok"
                        THEN [ptr |-> Some(a.addr + offset_delta), len |-> len]
                        ELSE NoRaw,
                space |-> a.space, created |-> a.created]
       ELSE [res |-> "ok",
             raw |-> [ptr |-> Some(addr[1] + offset_delta), len |-> len],
             space |-> mmap(sp, addr[1], aligned_len, "file", aligned_offset),
             created |-> PagesOf(addr[1], aligned_len)]

\* the length map_file hands to its first mmap call
map_file_len(offset, len, alignment) ==
    len + (offset - AndNot(offset, PageSize - 1))
        + (IF alignment /= None /\ alignment[1] > PageSize THEN alignment[1] - 1 ELSE 0)

\* platform::map_anon (linux.rs lines 168-282)
map_anon(sp, len, alignment, addr) ==
    LET custom == alignment /= None /\ alignment[1] > PageSize
    IN IF addr = None
       THEN [res |-> "io", raw |-> NoRaw, space |-> sp, created |-> {}]
       ELSE IF custom
       THEN LET a == map_aligned(sp, addr[1], len, alignment[1], "anon", 0)
            IN [res |-> a.res,
                raw |-> IF a.res = "ok"
                        THEN [ptr |-> Some(a.addr), len |-> len]
                        ELSE NoRaw,
                space |-> a.space, created |-> a.created]
       ELSE [res |-> "ok",
             raw |-> [ptr |-> Some(addr[1]), len |-> len],
             space |-> mmap(sp, addr[1], len, "anon", 0),
             created |-> PagesOf(addr[1], len)]

\* the length map_anon hands to its first mmap call
map_anon_len(len, alignment) ==
    len + (IF alignment /= None /\ alignment[1] > PageSize THEN alignment[1] - 1 ELSE 0)

\* platform::unmap (linux.rs lines 306-314)
unmap(sp, addr, len) == munmap(sp, addr, len)

\* the byte of the file at the position
FileByte(q) == [kind |-> "byte", pos |-> q]

\* the byte at an address of a view of a file of the size: the byte of the
\* file it comes from, a zero past the end of the file inside its last page
\* and in anonymous memory, a fault elsewhere (SIGSEGV, SIGBUS)
byte_at(sp, address, file_size) ==
    LET p == address \div PageSize
    IN IF p \notin DOMAIN sp THEN [kind |-> "fault", pos |-> 0]
       ELSE IF sp[p].kind = "anon" THEN [kind |-> "zero", pos |-> 0]
       ELSE LET q == sp[p].fpage * PageSize + (address % PageSize)
            IN IF q < file_size THEN FileByte(q)
               ELSE IF sp[p].fpage * PageSize < file_size
                    THEN [kind |-> "zero", pos |-> 0]
                    ELSE [kind |-> "fault", pos |-> 0]

\* the record of a call that has returned
KernelCall(op, options, file_size, res, raw, created, unmaps) ==
    [op |-> op, options |-> options, file_size |-> file_size, res |-> res,
     raw |-> raw,          \* the MmapRaw returned, or the one dropped
     created |-> created,  \* the pages the call's mmap created (for a drop: the
                           \* pages of the view's kernel range)
     unmaps |-> unmaps]    \* calls of platform::unmap made

\* a view the caller holds: the MmapRaw, the call that made it and the pages
\* of its kernel range still mapped when the call returned
View(op, options, file_size, raw, range) ==
    [op |-> op, options |-> options, file_size |-> file_size, raw |-> raw,
     range |-> range]

\* what the kernel may answer to an mmap of the length: a free address, or
\* MAP_FAILED (always so for a length of 0)
KernelChoices(length) ==
    {None} \cup (IF length > 0 THEN {Some(a) : a \in FreeAddrs(length)} ELSE {})

\* what a mapping call leaves behind: r is the platform's result
KernelReturn(op, options, file_size, len, r) ==
    /\ space' = r.space
    /\ mapcalls' = <<KernelCall(op, options, file_size, r.res, r.raw, r.created, 0)>>
    /\ IF r.res = "ok"
       THEN /\ TOTAL_MAPPED_MEMORY' = TOTAL_MAPPED_MEMORY + len
            /\ ACTIVE_MAPPINGS' = ACTIVE_MAPPINGS + 1
            /\ views' = views \cup
                   {View(op, options, file_size, r.raw, r.created \cap DOMAIN r.space)}
       ELSE UNCHANGED <<TOTAL_MAPPED_MEMORY, ACTIVE_MAPPINGS, views>>

\* options.map(&file) or options.map_mut(&file), as one step
KernelMap(op, opts, file_size) ==
    LET options == IF op = "map_mut" THEN [opts EXCEPT !.writable = TRUE] ELSE opts
        c == validate([IdleMapCall EXCEPT !.op = op, !.options = options,
                                          !.file_size = file_size])
    IN /\ IF c.pc = "done"
          THEN /\ mapcalls' = <<KernelCall(op, options, file_size, c.res, NoRaw, {}, 0)>>
               /\ UNCHANGED <<TOTAL_MAPPED_MEMORY, ACTIVE_MAPPINGS, views, space>>
          ELSE \E addr \in KernelChoices(map_file_len(options.offset, c.len,
                                                      options.alignment)) :
                  KernelReturn(op, options, file_size, c.len,
                               map_file(space, options.offset, c.len,
                                        options.alignment, addr))
       /\ UNCHANGED <<builder, hist, failed, last, phase, file, column, dir, table,
                      fieldlist, schema, qvars, tvars, syscalls>>

\* options.map_anon(len), as one step
KernelMapAnon(opts, len) ==
    LET options == MmapOptions_len(opts, len)
        c == validate([IdleMapCall EXCEPT !.op = "map_anon", !.options = options])
    IN /\ IF c.pc = "done"
          THEN /\ mapcalls' = <<KernelCall("map_anon", options, 0, c.res, NoRaw, {}, 0)>>
               /\ UNCHANGED <<TOTAL_MAPPED_MEMORY, ACTIVE_MAPPINGS, views, space>>
          ELSE \E addr \in KernelChoices(map_anon_len(c.len, options.alignment)) :
                  KernelReturn("map_anon", options, 0, c.len,
                               map_anon(space, c.len, options.alignment, addr))
       /\ UNCHANGED <<builder, hist, failed, last, phase, file, column, dir, table,
                      fieldlist, schema, qvars, tvars, syscalls>>

\* the view is dropped: Drop for MmapRaw, as one step
KernelDrop(v) ==
    /\ v \in views
    /\ views' = views \ {v}
    /\ IF v.raw.ptr /= None
       THEN LET u == unmap(space, v.raw.ptr[1], v.raw.len)
            IN /\ ACTIVE_MAPPINGS' = ACTIVE_MAPPINGS - 1
               /\ TOTAL_MAPPED_MEMORY' = TOTAL_MAPPED_MEMORY - v.raw.len
               /\ space' = u.space
               /\ mapcalls' = <<KernelCall("drop", v.options, v.file_size, u.res,
                                           v.raw, v.range, 1)>>
       ELSE /\ mapcalls' = <<KernelCall("drop", v.options, v.file_size, "ok",
                                        v.raw, v.range, 0)>>
            /\ UNCHANGED <<TOTAL_MAPPED_MEMORY, ACTIVE_MAPPINGS, space>>
    /\ UNCHANGED <<builder, hist, failed, last, phase, file, column, dir, table,
                   fieldlist, schema, qvars, tvars, syscalls>>

\* the file mappings of SpecKernel: the options and the size of the file
KernelFileInputs ==
    {[options |-> MmapOptions_new, file_size |-> 2 * PageSize],
     [options |-> MmapOptions_len(MmapOptions_offset(MmapOptions_new, 1), 1),
      file_size |-> PageSize + 2],
     [options |-> MmapOptions_offset(MmapOptions_new, PageSize),
      file_size |-> 2 * PageSize],
     [options |-> MmapOptions_len(MmapOptions_new, 0), file_size |-> 2 * PageSize],
     [options |-> MmapOptions_len(MmapOptions_alignment(MmapOptions_new, 3), 1),
      file_size |-> 2 * PageSize],
     [options |-> MmapOptions_len(MmapOptions_alignment(MmapOptions_new, 2 * PageSize), 1),
      file_size |-> 2 * PageSize],
     [options |-> MmapOptions_len(MmapOptions_alignment(MmapOptions_new, 2 * PageSize),
                                  PageSize),
      file_size |-> 2 * PageSize]}

\* the files mapped writable
KernelMutInputs ==
    {[options |-> MmapOptions_new, file_size |-> 2 * PageSize]}

\* the anonymous mappings of SpecKernel
KernelAnonInputs ==
    {[options |-> MmapOptions_new, len |-> 0],
     [options |-> MmapOptions_new, len |-> 1],
     [options |-> MmapOptions_alignment(MmapOptions_new, 3), len |-> 1],
     [options |-> MmapOptions_alignment(MmapOptions_new, 2 * PageSize), len |-> 1],
     [options |-> MmapOptions_alignment(MmapOptions_new, 2 * PageSize), len |-> PageSize]}

InitKernel ==
    /\ builder = ColumnBuilder_new(Field_new("column", DT("UInt8"), FALSE), 0)
    /\ hist = <<>>
    /\ failed = FALSE
    /\ last = [op |-> "new", arg |-> None, res |-> "ok"]
    /\ phase = "kernel"
    /\ file = <<>>
    /\ column = NoColumn
    /\ dir = <<>>
    /\ table = NoTable
    /\ fieldlist = <<>>
    /\ schema = NoSchema
    /\ QueryIdle
    /\ TOTAL_MAPPED_MEMORY = 0
    /\ ACTIVE_MAPPINGS = 0
    /\ views = {}
    /\ mapcalls = <<KernelCall("none", MmapOptions_new, 0, "none", NoRaw, {}, 0)>>
    /\ syscalls = 0
    /\ space = <<>>
    /\ tbuilder = <<>>

NextKernel ==
    \/ \E i \in KernelFileInputs : KernelMap("map", i.options, i.file_size)
    \/ \E i \in KernelMutInputs : KernelMap("map_mut", i.options, i.file_size)
    \/ \E i \in KernelAnonInputs : KernelMapAnon(i.options, i.len)
    \/ \E v \in views : KernelDrop(v)

SpecKernel == InitKernel /\ [][NextKernel]_vars

\* the last call of SpecKernel
LastCall == mapcalls[1]

\* C21: while a view lives, every page of [ptr, ptr + len) is mapped; a drop
\* calls unmap exactly once, and after it no page of the view's kernel range
\* remains mapped.
C21_RangeMappedUntilDrop ==
    phase = "kernel" =>
        /\ \A v \in views :
              PagesOf(v.raw.ptr[1], v.raw.len) \subseteq DOMAIN space
        /\ LastCall.op = "drop" =>
              /\ LastCall.unmaps = 1
              /\ LastCall.created \cap DOMAIN space = {}

\* What the code does keep of C21: the view's pages stay mapped while it
\* lives, unmap is called once, and a view whose pointer is page-aligned and
\* whose range was not over-allocated is entirely unmapped by its drop.
C21_AlignedRangeUnmapped ==
    phase = "kernel" =>
        /\ \A v \in views :
              PagesOf(v.raw.ptr[1], v.raw.len) \subseteq DOMAIN space
        /\ LastCall.op = "drop" =>
              /\ LastCall.unmaps = 1
              /\ (/\ LastCall.raw.ptr[1] % PageSize = 0
                  /\ LastCall.created = PagesOf(LastCall.raw.ptr[1], LastCall.raw.len))
                     => LastCall.created \cap DOMAIN space = {}

\* a mapping of a file, as opposed to an anonymous one
IsFileMap(c) == c.op \in {"map", "map_mut"}

\* the indexes of a view at which its bytes are looked at: its first and its
\* last, and the two on either side of every page boundary inside it (inside
\* one page a view follows the file byte by byte)
ProbeIndexes(ptr, len) ==
    {k \in {0, len - 1} \cup
           UNION {{p * PageSize - ptr, p * PageSize - ptr - 1} :
                      p \in PagesOf(ptr, len)} :
        0 <= k /\ k < len}

\* the view has the length asked for and its byte k is byte offset + k of
\* the file
ExposesRequestedBytes(v) ==
    /\ v.raw.len = v.options.len[1]
    /\ \A k \in ProbeIndexes(v.raw.ptr[1], v.raw.len) :
          byte_at(space, v.raw.ptr[1] + k, v.file_size) = FileByte(v.options.offset + k)

\* the view was asked for with a length, over bytes the file has
WindowRequested(v) ==
    /\ IsFileMap(v)
    /\ v.options.len /= None
    /\ v.options.offset + v.options.len[1] <= v.file_size

\* C22: a view of a file made with an explicit length, whatever the offset
\* and the alignment, has that length, and its byte k is the file's byte
\* offset + k.
C22_ViewExposesRequestedBytes ==
    phase = "kernel" =>
        \A v \in views : WindowRequested(v) => ExposesRequestedBytes(v)

\* What the code does keep of C22: without an alignment above the page size
\* the view starts at the requested byte, page-aligned offset or not.
C22_ViewWithoutCustomAlignment ==
    phase = "kernel" =>
        \A v \in views :
            (/\ WindowRequested(v)
             /\ (v.options.alignment = None \/ v.options.alignment[1] <= PageSize))
                => ExposesRequestedBytes(v)

IsPowerOfTwo(a) == \E k \in 0 .. 23 : a = 2 ^ k

\* C24: a mapping call whose alignment is not a power of two returns the
\* alignment error and creates no mapping.
C24_AlignmentRejected ==
    (/\ phase = "kernel"
     /\ LastCall.op \in {"map", "map_mut", "map_anon"}
     /\ LastCall.options.alignment /= None
     /\ ~IsPowerOfTwo(LastCall.options.alignment[1]))
        => /\ LastCall.res = "alignment_error"
           /\ LastCall.created = {}

\* the last call made a mapping with a power-of-two alignment above the page
\* size
CustomAligned(c) ==
    /\ c.op \in {"map", "map_mut", "map_anon"}
    /\ c.res = "ok"
    /\ c.options.alignment /= None
    /\ IsPowerOfTwo(c.options.alignment[1])
    /\ c.options.alignment[1] > PageSize

\* C26: after a mapping with a power-of-two alignment A above the page size
\* the pointer is a multiple of A and the pages of the over-allocation left
\* mapped are exactly those of [ptr, ptr + len).
C26_OverAllocationTrimmed ==
    (phase = "kernel" /\ CustomAligned(LastCall)) =>
        /\ LastCall.raw.ptr[1] % LastCall.options.alignment[1] = 0
        /\ LastCall.created \cap DOMAIN space
               = PagesOf(LastCall.raw.ptr[1], LastCall.raw.len)

\* What the code does keep of C26: the pointer is a multiple of A, and for a
\* length that is a multiple of the page size the prefix and the suffix are
\* released.
C26_PageMultipleTrimmed ==
    (phase = "kernel" /\ CustomAligned(LastCall)) =>
        /\ LastCall.raw.ptr[1] % LastCall.options.alignment[1] = 0
        /\ LastCall.raw.len % PageSize = 0
               => LastCall.created \cap DOMAIN space
                      = PagesOf(LastCall.raw.ptr[1], LastCall.raw.len)

\* C30: a view of a file made with an offset and no length ends where the
\* file ends or before: offset + len is at most the file's size, and its last
\* byte is a byte of the file.
C30_WindowWithinFile ==
    phase = "kernel" =>
        \A v \in views :
            (IsFileMap(v) /\ v.options.len = None) =>
                /\ v.options.offset + v.raw.len <= v.file_size
                /\ byte_at(space, v.raw.ptr[1] + v.raw.len - 1, v.file_size).kind = "byte"

-----------------------------------------------------------------------------
(* The alignment utilities (utils/alignment.rs) on machine words of WordBits *)
(* bits.  An addition that overflows panics in a build with overflow checks  *)
(* and wraps in one without.                                                 *)

\* the number of values of a word
WordSize == 2 ^ WordBits

\* align_up(value, align) on words: (value + align - 1) & !(align - 1)
align_up_usize(value, align, overflow_checks) ==
    LET sum == value + align - 1
    IN IF sum >= WordSize /\ overflow_checks
       THEN [res |-> "panic", value |-> 0]
       ELSE [res |-> "ok", value |-> AndNot(sum % WordSize, align - 1)]

\* the powers of two a word can hold
WordPowersOfTwo == {2 ^ k : k \in 0 .. WordBits - 1}

InitAlign ==
    /\ builder = ColumnBuilder_new(Field_new("column", DT("UInt8"), FALSE), 0)
    /\ hist = <<>>
    /\ failed = FALSE
    /\ \E x \in 0 .. WordSize - 1, a \in WordPowersOfTwo, oc \in BOOLEAN :
          last = [op |-> "input", arg |-> <<x, a, oc>>, res |-> None]
    /\ phase = "align"
    /\ file = <<>>
    /\ column = NoColumn
    /\ dir = <<>>
    /\ table = NoTable
    /\ fieldlist = <<>>
    /\ schema = NoSchema
    /\ QueryIdle
    /\ MmapIdle

\* align_up(x, a) is called, and align_up again on what it returned
AlignUp ==
    /\ phase = "align"
    /\ last.op = "input"
    /\ LET r == align_up_usize(last.arg[1], last.arg[2], last.arg[3])
       IN last' = [op |-> "align_up", arg |-> last.arg,
                   res |-> <<r, IF r.res = "ok"
                                THEN align_up_usize(r.value, last.arg[2], last.arg[3])
                                ELSE r>>]
    /\ UNCHANGED <<builder, hist, failed, phase, file, column, dir, table,
                   fieldlist, schema, qvars, mvars, tvars>>

NextAlign == AlignUp

SpecAlign == InitAlign /\ [][NextAlign]_vars

\* align_up(x, a) returned r, and align_up(r, a) returned again: r is a
\* multiple of a, at least x, less than a above x, and is its own align_up
SmallestMultipleAbove(x, a, r, again) ==
    /\ r.res = "ok"
    /\ r.value % a = 0
    /\ r.value >= x
    /\ r.value - x < a
    /\ again = r

\* C23: for every word x and every power of two a, align_up(x, a) is the
\* smallest multiple of a that is at least x, and align_up of it is itself.
C23_AlignUp ==
    (phase = "align" /\ last.op = "align_up") =>
        SmallestMultipleAbove(last.arg[1], last.arg[2], last.res[1], last.res[2])

\* What the code does keep of C23: the same for every x for which a multiple
\* of a that is at least x fits the word and x + a - 1 does not overflow.
C23_AlignUpWithoutOverflow ==
    (phase = "align" /\ last.op = "align_up"
        /\ last.arg[1] + last.arg[2] - 1 < WordSize) =>
        SmallestMultipleAbove(last.arg[1], last.arg[2], last.res[1], last.res[2])

-----------------------------------------------------------------------------
(* The layout of the column file and the bytes the reader touches *)

\* the section of the file the header declares at [offset, offset + size)
Section(m, offset, size) == SubSeq(m, offset + 1, offset + size)

\* the offsets the writer put out, as bytes
written_offsets_bytes(b) ==
    Flatten([i \in 1..Len(written_offsets(b)) |-> to_le_bytes(written_offsets(b)[i], 8)])

\* the header's section offsets follow one another from the end of the
\* header, without gap or overlap
SectionsContiguous(m) ==
    /\ hdr_null_bitmap_size(m) > 0 => hdr_null_bitmap_offset(m) = HeaderSize
    /\ hdr_offsets_size(m) > 0 =>
          hdr_offsets_offset(m) = HeaderSize + hdr_null_bitmap_size(m)
    /\ hdr_data_offset(m) = HeaderSize + hdr_null_bitmap_size(m) + hdr_offsets_size(m)

\* every section lies in the file at the range the header declares for it
SectionsInPlace(m, b) ==
    /\ Len(m) = hdr_data_offset(m) + hdr_data_size(m)
    /\ Section(m, 0, HeaderSize) = header_bytes(write_header(b))
    /\ Section(m, HeaderSize, hdr_null_bitmap_size(m)) = written_null_bitmap(b)
    /\ Section(m, HeaderSize + hdr_null_bitmap_size(m), hdr_offsets_size(m))
          = written_offsets_bytes(b)
    /\ Section(m, hdr_data_offset(m), hdr_data_size(m)) = b.data

\* C25: the file write_to_file produces is header, null bitmap, offsets,
\* data, each at exactly the byte range the header declares for it, without
\* gap or overlap, and its length is data_offset + data_size.
C25_Layout ==
    (phase = "written" /\ last.res = "ok") =>
        /\ SectionsContiguous(file)
        /\ SectionsInPlace(file, builder)

\* What the code does keep of C25: the declared ranges are contiguous for
\* every builder, and the file of a non-nullable fixed-width column is laid
\* out as declared.
C25_FixedNonNullableLayout ==
    (phase = "written" /\ last.res = "ok") =>
        /\ SectionsContiguous(file)
        /\ (~nullable /\ ~is_variable_length(builder.field.data_type))
              => SectionsInPlace(file, builder)

\* the offsets from the start of the mapping of the bytes is_null(row_index)
\* reads (column.rs lines 222-234)
is_null_reads(c, row_index) ==
    IF ~c.field.nullable \/ c.null_bitmap_ptr = None THEN {}
    ELSE {c.null_bitmap_ptr[1] + (row_index \div 8)}

\* the bytes get_bytes(row_index) reads (column.rs lines 237-307): the null
\* bitmap byte, then for a variable-length type the two offsets entries and
\* the span they give, for a fixed-width type the row's bytes
get_bytes_reads(c, row_index) ==
    is_null_reads(c, row_index) \cup
    (IF is_null_faults(c, row_index) \/ is_null(c, row_index) THEN {}
     ELSE IF is_variable_length(c.field.data_type) THEN
        IF c.offsets_ptr = None THEN {}
        ELSE LET p == c.offsets_ptr[1] + 8 * row_index
                 start_offset == Deref(c, p, 8)
                 end_offset == Deref(c, p + 8, 8)
             IN (IF c.checked /\ p % 8 /= 0 THEN {} ELSE p .. (p + 15))
                \cup (IF start_offset = Fault \/ end_offset = Fault THEN {}
                      ELSE IF start_offset[1] = Huge \/ end_offset[1] = Huge
                           THEN {Huge}
                      ELSE (c.data_ptr + start_offset[1])
                               .. (c.data_ptr + end_offset[1] - 1))
     ELSE LET size == DataType_size(c.field.data_type)[1]
          IN (c.data_ptr + row_index * size) .. (c.data_ptr + (row_index + 1) * size - 1))

\* every byte the two accessors read for the rows of the column is a byte of
\* the file
ReadsInFile(c) ==
    \A i \in 0 .. (row_count(c) - 1) :
        (is_null_reads(c, i) \cup get_bytes_reads(c, i)) \subseteq 0 .. (Len(c.mmap) - 1)

\* C27: on a column opened from a file write_to_file produced, is_null(i)
\* and get_bytes(i) read only bytes of the file, for every i < row_count.
C27_ReadsInFile ==
    (phase = "opened" /\ last.res = "ok") => ReadsInFile(column)

\* What the code does keep of C27: the same for non-nullable fixed-width
\* columns.
C27_FixedNonNullableReadsInFile ==
    (phase = "opened" /\ last.res = "ok" /\ ~nullable
        /\ ~is_variable_length(builder.field.data_type)) => ReadsInFile(column)

-----------------------------------------------------------------------------
(* TableBuilder (columnar/table.rs).  The value map of add_row and the       *)
(* column_builders are HashMaps: functions on a set of names, iterated in an *)
(* order the caller does not choose.                                         *)

\* Schema::field(name), for a name the schema has
Schema_field(sch, name) == sch.fields[sch.field_indices[name] + 1]

\* the field the loop of TableBuilder::new inserts last under the name
LastFieldNamed(fields, n) ==
    fields[CHOOSE i \in 1..Len(fields) :
              /\ fields[i].name = n
              /\ \A j \in (i + 1)..Len(fields) : fields[j].name /= n]

\* TableBuilder::new: one ColumnBuilder per field name of the schema
TableBuilder_new(fields, compression) ==
    [schema |-> Schema_new(fields).schema,
     column_builders |->
         [n \in {fields[i].name : i \in 1..Len(fields)} |->
             ColumnBuilder_new(LastFieldNamed(fields, n), compression)],
     calls |-> 0]   \* add_row calls made so far

\* add_row, lines 181-353: the append of one value of the map, the bytes
\* checked against the type of the field
append_value_bytes(b, data_type, value) ==
    CASE data_type.kind = "Boolean" ->
            IF Len(value) /= 1 THEN InvalidArgument(b)
            ELSE append_bool(b, value[1] /= 0)
      [] data_type.kind = "UInt8" ->
            IF Len(value) /= 1 THEN InvalidArgument(b)
            ELSE append_u8(b, value[1])
      [] data_type.kind = "UInt64" ->
            IF Len(value) /= 8 THEN InvalidArgument(b)
            ELSE append_u64(b, from_le_bytes(value))
      [] data_type.kind = "Timestamp" ->
            IF Len(value) /= 8 THEN InvalidArgument(b)
            ELSE append_timestamp(b, from_le_bytes(value))
      [] data_type.kind = "String" ->
            IF ~is_utf8(value) THEN InvalidArgument(b)
            ELSE append_string(b, value)
      [] data_type.kind = "Binary" -> append_binary(b, value)
      [] data_type.kind = "FixedBinary" ->
            IF Len(value) /= data_type.size THEN InvalidArgument(b)
            ELSE append_binary(b, value)
      [] data_type.kind = "Decimal" -> InvalidArgument(b)

\* the loop of add_row over the value map, taken in the order given, from
\* its k-th entry on: the builders it leaves and what it returns
RECURSIVE add_row_values(_, _, _, _)
add_row_values(tb, values, order, k) ==
    IF k > Len(order) THEN [tb |-> tb, res |-> "ok"]
    ELSE IF order[k] \notin DOMAIN tb.column_builders
         THEN add_row_values(tb, values, order, k + 1)
    ELSE LET name == order[k]
             builder_ == tb.column_builders[name]
             r == IF values[name] /= None
                  THEN append_value_bytes(builder_, Schema_field(tb.schema, name).data_type,
                                          values[name][1])
                  ELSE append_null(builder_)
             tb1 == [tb EXCEPT !.column_builders[name] = r.b]
         IN IF r.res /= "ok" THEN [tb |-> tb1, res |-> r.res]
            ELSE add_row_values(tb1, values, order, k + 1)

\* TableBuilder::add_row(values), the map iterated in the order given
add_row(tb, values, order) ==
    IF \E i \in 1..Len(tb.schema.fields) :
          /\ ~tb.schema.fields[i].nullable
          /\ tb.schema.fields[i].name \notin DOMAIN values
    THEN [tb |-> tb, res |-> "invalid_argument"]
    ELSE add_row_values(tb, values, order, 1)

\* the loop of TableBuilder::build over the column builders, taken in the
\* order given, from its k-th on: n is the number of columns inserted so
\* far and rows the row count of the first
RECURSIVE build_columns(_, _, _, _, _)
build_columns(tb, order, k, n, rows) ==
    IF k > Len(order) THEN "ok"
    ELSE LET opened == Column_open(write_to_file(tb.column_builders[order[k]]), FALSE)
         IN IF opened.res /= "ok" THEN opened.res
            ELSE IF n > 0 /\ row_count(opened.col) /= rows THEN "invalid_argument"
            ELSE build_columns(tb, order, k + 1, n + 1,
                               IF n = 0 THEN row_count(opened.col) ELSE rows)

\* TableBuilder::build: what it returns
TableBuilder_build(tb, order) == build_columns(tb, order, 1, 0, 0)

\* the orders in which a HashMap with the keys may be iterated
Orders(keys) ==
    {o \in [1..Cardinality(keys) -> keys] :
        \A i, j \in 1..Cardinality(keys) : o[i] = o[j] => i = j}

\* the schema of the table built under SpecBuilder
BuilderFields ==
    <<Field_new("id", DT("UInt8"), FALSE),
      Field_new("name", DT("String"), TRUE),
      Field_new("price", DT("Decimal"), TRUE)>>

\* the values add_row is handed under a key
ValueChoices(key) ==
    CASE key = "id" -> {None, Some(<<1>>), Some(<<1, 2>>)}
      [] key = "name" -> {None, Some(<<97>>), Some(<<200>>)}
      [] key = "price" -> {None, Some(<<1>>)}
      [] key = "other" -> {Some(<<1>>)}

\* the value maps add_row is handed
RowMaps ==
    UNION {{f \in [keys -> UNION {ValueChoices(k) : k \in keys}] :
               \A k \in keys : f[k] \in ValueChoices(k)} :
           keys \in SUBSET {"id", "name", "price", "other"}}

InitBuilder ==
    /\ builder = ColumnBuilder_new(Field_new("column", DT("UInt8"), FALSE), 0)
    /\ hist = <<>>
    /\ failed = FALSE
    /\ last = [op |-> "new", arg |-> <<>>, res |-> "ok", before |-> <<>>]
    /\ phase = "table_building"
    /\ file = <<>>
    /\ column = NoColumn
    /\ dir = <<>>
    /\ table = NoTable
    /\ fieldlist = BuilderFields
    /\ schema = NoSchema
    /\ QueryIdle
    /\ TOTAL_MAPPED_MEMORY = 0
    /\ ACTIVE_MAPPINGS = 0
    /\ views = {}
    /\ mapcalls = <<>>
    /\ syscalls = 0
    /\ space = <<>>
    /\ tbuilder = TableBuilder_new(BuilderFields, 0)

\* table_builder.add_row(&values)
AddRow(values, order) ==
    /\ phase = "table_building"
    /\ tbuilder.calls < MaxAddRows
    /\ LET r == add_row(tbuilder, values, order)
       IN /\ tbuilder' = [r.tb EXCEPT !.calls = @ + 1]
          /\ last' = [op |-> "add_row", arg |-> values, res |-> r.res,
                      before |-> tbuilder.column_builders]
          /\ hist' = IF r.res = "ok" THEN Append(hist, values) ELSE hist
          /\ failed' = (failed \/ r.res /= "ok")
    /\ UNCHANGED <<builder, phase, file, column, dir, table, fieldlist, schema,
                   qvars, mvars>>

\* table_builder.build()
TableBuild(order) ==
    /\ phase = "table_building"
    /\ last.op /= "build"
    /\ last' = [op |-> "build", arg |-> <<>>, res |-> TableBuilder_build(tbuilder, order),
                before |-> tbuilder.column_builders]
    /\ UNCHANGED <<builder, hist, failed, phase, file, column, dir, table, fieldlist,
                   schema, qvars, mvars, tvars>>

NextBuilder ==
    \/ \E values \in RowMaps : \E order \in Orders(DOMAIN values) : AddRow(values, order)
    \/ \E order \in Orders(DOMAIN tbuilder.column_builders) : TableBuild(order)

SpecBuilder == InitBuilder /\ [][NextBuilder]_vars

\* every column builder holds n rows
BuildersHold(column_builders, n) ==
    \A name \in DOMAIN column_builders : column_builders[name].row_count = n

\* C28: after a successful add_row every column builder holds as many rows as
\* add_row has succeeded, also when the value map omits a nullable field, and
\* build does not fail on a row-count mismatch.
C28_BuildersInStep ==
    phase = "table_building" =>
        /\ (last.op = "add_row" /\ last.res = "ok") =>
              BuildersHold(tbuilder.column_builders, Len(hist))
        /\ (last.op = "build" /\ ~failed) => last.res = "ok"

\* What the code does keep of C28: a successful add_row whose map has a value
\* or a null for every field adds one row to every builder.
C28_FullRowsInStep ==
    (/\ phase = "table_building"
     /\ last.op = "add_row"
     /\ last.res = "ok"
     /\ DOMAIN last.before \subseteq DOMAIN last.arg) =>
        \A name \in DOMAIN last.before :
            tbuilder.column_builders[name].row_count = last.before[name].row_count + 1

\* C29: an add_row that returns an error has changed no column builder.
C29_FailedRowAddsNothing ==
    (phase = "table_building" /\ last.op = "add_row" /\ last.res /= "ok") =>
        tbuilder.column_builders = last.before

\* What the code does keep of C29: an add_row refused for a missing required
\* field has changed no column builder.
C29_MissingFieldAddsNothing ==
    (/\ phase = "table_building"
     /\ last.op = "add_row"
     /\ last.res /= "ok"
     /\ "id" \notin DOMAIN last.arg) =>
        tbuilder.column_builders = last.before

=============================================================================
